---- MODULE Spec2Model ----
(***************************************************************************)
(* Model of the itinerary generator's day-organization engine and of the   *)
(* per-day research orchestration (src/src/agent).                         *)
(*                                                                         *)
(* Python dicts keep insertion order, and the code depends on it (the      *)
(* order of coordinates.keys(), of all_defined.keys(), of the day keys):   *)
(* a dict is modelled as a sequence of <<key, value>> pairs with distinct  *)
(* keys.  geopy's geodesic distance is modelled by the squared Euclidean   *)
(* distance on an integer grid, compared exactly as a fraction.            *)
(***************************************************************************)
EXTENDS Integers, Sequences, FiniteSets, TLC

VARIABLES
    num_days,                   \* GraphState.num_days
    attraction_coordinates,     \* GraphState.attraction_coordinates (dict name -> coordinate)
    all_coordinates_obtained,   \* GraphState.all_coordinates_obtained
    clusters,                   \* GraphState.clusters (array aligned with coordinates.keys())
    organized_days,             \* agent state: organized_days (dict day key -> list of names)
    has_flexible_attractions,   \* agent state: has_flexible_attractions
    itinerary_approved,         \* agent state: itinerary_approved
    user_feedback,              \* agent state: user_feedback
    invalid_input,              \* GraphState.invalid_input
    tool_calls,                 \* names of the tools called in the AIMessages of state["messages"]
    last_tool_call,             \* name and arguments of the last tool call of state["messages"]
    last_tool_message,          \* content of the last ToolMessage of state["messages"]
    submitted_names,            \* names passed to extract_coordinates in the tool calls of state["messages"]
    clustering_locals,          \* organize_attractions_by_days: its locals at the cluster-to-day mapping
    pc,                         \* where the graph run stands
    retry_count,                \* day_organizer_node: retry_count
    attempts,                   \* day_organizer_node: number of agent invocations so far
    approval_rounds,            \* day_organizer_node: number of Command(resume=...) sent so far
    organizer_outcome,          \* day_organizer_node: which return statement it left by
    structured_response,        \* the day organizer agent's structured_response
    attractions_by_day,         \* GraphState.attractions_by_day
    tasks,                      \* the Send() tasks of attraction_researcher_node
    batches,                    \* the tasks in the order their updates were reduced
    processed_attractions,      \* GraphState.processed_attractions
    document,                   \* the day sections of the content blocks
    costs_by_currency,          \* GraphState.costs_by_currency
    final_document_path,        \* GraphState.final_document_path
    route_call,                 \* arguments of a call of _order_attractions_nearest_neighbor
    route_result                \* what the call returned

orgVars == <<num_days, attraction_coordinates, all_coordinates_obtained, clusters,
             organized_days, has_flexible_attractions, itinerary_approved,
             user_feedback, invalid_input, tool_calls, last_tool_call,
             last_tool_message, submitted_names, clustering_locals>>

flowVars == <<pc, retry_count, attempts, approval_rounds, organizer_outcome,
              structured_response, attractions_by_day>>

taskVars == <<tasks, batches, processed_attractions, document, costs_by_currency,
              final_document_path>>

routeVars == <<route_call, route_result>>

(***************************************************************************)
(* Bounds and input domains                                                *)
(***************************************************************************)
MaxDays == 2

Names == {"A", "B", "C"}

\* The canonical iteration order used to enumerate input dicts.
NameOrder == <<"A", "B", "C", "Z">>

\* Python's None for a name; an optional integer is <<>> (None) or <<n>>.
None == "None"

NoneInt == <<>>

SomeInt(n) == <<n>>

\* The places the geocoder knows, with their coordinates.
Places == {"pA", "pB", "pC", "pA2"}

(***************************************************************************)
(* Ordered dicts                                                           *)
(***************************************************************************)
Range(s) == {s[i] : i \in 1..Len(s)}

D_Keys(d) == [i \in 1..Len(d) |-> d[i][1]]

D_KeySet(d) == {d[i][1] : i \in 1..Len(d)}

D_Values(d) == {d[i][2] : i \in 1..Len(d)}

D_Has(d, k) == \E i \in 1..Len(d) : d[i][1] = k

D_Get(d, k) == d[CHOOSE i \in 1..Len(d) : d[i][1] = k][2]

D_GetOr(d, k, dflt) == IF D_Has(d, k) THEN D_Get(d, k) ELSE dflt

\* d[k] = v: an existing key keeps its position, a new key goes last.
D_Set(d, k, v) ==
    IF D_Has(d, k)
    THEN [i \in 1..Len(d) |-> IF d[i][1] = k THEN <<k, v>> ELSE d[i]]
    ELSE Append(d, <<k, v>>)

RECURSIVE D_Update(_, _)
\* {**left, **right}
D_Update(left, right) ==
    IF right = <<>> THEN left
    ELSE D_Update(D_Set(left, right[1][1], right[1][2]), Tail(right))

\* First index of x in the list s (list.index).
IndexOf(s, x) == CHOOSE i \in 1..Len(s) : s[i] = x /\ \A j \in 1..(i - 1) : s[j] # x

(***************************************************************************)
(* Distances and centroids                                                 *)
(***************************************************************************)
\* A point is [lat, lon, den]: the coordinate (lat / den, lon / den).
Point(c) == [lat |-> c.lat, lon |-> c.lon, den |-> 1]

\* Squared distance between two points, as the fraction <<numerator, denominator>>.
geodesic(p, q) ==
    LET dlat == p.lat * q.den - q.lat * p.den
        dlon == p.lon * q.den - q.lon * p.den
    IN  <<dlat * dlat + dlon * dlon, (p.den * q.den) * (p.den * q.den)>>

DistLess(x, y) == x[1] * y[2] < y[1] * x[2]

DistEq(x, y) == x[1] * y[2] = y[1] * x[2]

RECURSIVE SumOver(_, _, _)
SumOver(coordinates, names, field) ==
    IF names = <<>> THEN 0
    ELSE (IF field = "lat" THEN D_Get(coordinates, names[1]).lat
                           ELSE D_Get(coordinates, names[1]).lon)
         + SumOver(coordinates, Tail(names), field)

calculate_centroid(coordinates, names) ==
    LET known == SelectSeq(names, LAMBDA n : D_Has(coordinates, n))
    IN  IF names = <<>> \/ known = <<>> THEN None
        ELSE [lat |-> SumOver(coordinates, known, "lat"),
              lon |-> SumOver(coordinates, known, "lon"),
              den |-> Len(known)]

distance_to_point(coordinates, name, point) ==
    geodesic(Point(D_Get(coordinates, name)), point)

\* min(list, key): the first element of the list with the least key.
MinOfList(coordinates, s, point) ==
    LET Key(a) == distance_to_point(coordinates, a, point)
    IN  s[CHOOSE i \in 1..Len(s) :
            /\ \A j \in 1..Len(s) : ~DistLess(Key(s[j]), Key(s[i]))
            /\ \A j \in 1..(i - 1) : DistLess(Key(s[i]), Key(s[j]))]

\* min(set, key): the element met first, in the iteration order of a set of
\* strings, among those with the least key; that order is not fixed by the
\* program (string hashing), so any element with the least key may result.
MinOfSetChoices(coordinates, S, point) ==
    LET Key(a) == distance_to_point(coordinates, a, point)
    IN  {a \in S : \A b \in S : ~DistLess(Key(b), Key(a))}

RECURSIVE NearestNeighborFrom(_, _, _)
NearestNeighborFrom(coordinates, ordered, remaining) ==
    IF remaining = {} THEN {ordered}
    ELSE LET current == ordered[Len(ordered)]
             current_coord == Point(D_Get(coordinates, current))
             nearestSet == MinOfSetChoices(coordinates, remaining, current_coord)
         IN  UNION {NearestNeighborFrom(coordinates, Append(ordered, nearest),
                                        remaining \ {nearest}) : nearest \in nearestSet}

\* The set of lists _order_attractions_nearest_neighbor may return.
order_attractions_nearest_neighbor(coordinates, attractions, starting_point) ==
    LET attractions_with_coords == SelectSeq(attractions, LAMBDA a : D_Has(coordinates, a))
        centroid == calculate_centroid(coordinates, attractions_with_coords)
        useStart == starting_point # None /\ starting_point \in Range(attractions_with_coords)
        first_attraction ==
            IF useStart THEN starting_point
            ELSE MinOfList(coordinates, attractions_with_coords, centroid)
        attractions_without_coords == SelectSeq(attractions, LAMBDA a : ~D_Has(coordinates, a))
    IN  IF Len(attractions) <= 1 THEN {attractions}
        ELSE IF Len(attractions_with_coords) <= 1 THEN {attractions}
        ELSE {ordered \o attractions_without_coords :
                ordered \in NearestNeighborFrom(coordinates, <<first_attraction>>,
                               Range(attractions_with_coords) \ {first_attraction})}

(***************************************************************************)
(* Geocoding gateway and extract_coordinates                               *)
(***************************************************************************)
\* geolocator.geocode(address): the location of a known place.
World == [p \in Places |->
            CASE p = "pA"  -> [lat |-> 0, lon |-> 0]
              [] p = "pB"  -> [lat |-> 1, lon |-> 0]
              [] p = "pC"  -> [lat |-> 2, lon |-> 0]
              [] p = "pA2" -> [lat |-> 0, lon |-> 1]]

ToolMessage(tool, kind, detail) == [tool |-> tool, kind |-> kind, detail |-> detail]

\* new_coordinates: the entries of the attractions whose geocoding succeeded
\* (found is the set of names the geocoder answers for), in dict order.
NewCoordinates(attractions, found) ==
    LET hit == SelectSeq(attractions, LAMBDA e : e[1] \in found)
    IN  [i \in 1..Len(hit) |-> <<hit[i][1], World[hit[i][2]]>>]

Failures(attractions, found) ==
    LET miss == SelectSeq(attractions, LAMBDA e : e[1] \notin found)
    IN  [i \in 1..Len(miss) |-> miss[i][1]]

MergeCoordinates(current_coordinates, new_coordinates) ==
    D_Update(current_coordinates, new_coordinates)

\* Mutant: the value already stored wins over the update.
merge_dicts_LeftBiased(left, right) == D_Update(right, left)

\* The reducer of attraction_coordinates in GraphState, which is the state schema of
\* the agent as well: {**left, **right} (neither side is None in a run: the graph
\* starts with an empty dict and every update is a dict).
merge_dicts(left, right) == D_Update(left, right)

\* attraction_coordinates of the initial graph state.
InitialCoordinates == <<>>

extract_coordinates(AttractionInputs) ==
    /\ pc = "agent"
    /\ \E attractions \in AttractionInputs :
      \E found \in SUBSET D_KeySet(attractions) :
        LET new_coordinates == NewCoordinates(attractions, found)
            failures == Failures(attractions, found)
        IN  /\ attraction_coordinates' =
                  merge_dicts(attraction_coordinates,
                              MergeCoordinates(attraction_coordinates, new_coordinates))
            /\ all_coordinates_obtained' = (Len(failures) = 0)
            /\ tool_calls' = tool_calls \cup {"extract_coordinates"}
            /\ last_tool_call' = [name |-> "extract_coordinates", args |-> attractions]
            /\ last_tool_message' =
                  ToolMessage("extract_coordinates", "geocoded", failures)
            /\ submitted_names' = submitted_names \cup D_KeySet(attractions)
            /\ UNCHANGED <<routeVars, clustering_locals, num_days, clusters, organized_days,
                           has_flexible_attractions, itinerary_approved, user_feedback,
                           invalid_input>>
            /\ UNCHANGED <<flowVars, taskVars>>

(***************************************************************************)
(* organize_attractions_by_days                                            *)
(***************************************************************************)
\* f"day_{day}" and int(day_key.split("_")[1])
DayKey(day) == <<"day", day>>

DayNum(day_key) == day_key[2]

\* Mutant: every day number is let through.
validate_day_assignments_Lenient(assignments, numDays) ==
    [valid |-> TRUE, name |-> None, day |-> 0]

\* The first entry that fails the range check, as [valid, name, day].
validate_day_assignments(assignments, numDays) ==
    LET bad == SelectSeq(assignments, LAMBDA e : e[2] < 1 \/ e[2] > numDays)
    IN  IF bad = <<>> THEN [valid |-> TRUE, name |-> None, day |-> 0]
        ELSE [valid |-> FALSE, name |-> bad[1][1], day |-> bad[1][2]]

\* Mutant: a name given in both dicts keeps its day_preferences day.
AllDefined_PrefsWin(prefs, isolated) == D_Update(isolated, prefs)

AllDefined(prefs, isolated) == D_Update(prefs, isolated)

AttractionsWithoutCoords(all_defined, coordinates) ==
    SelectSeq(D_Keys(all_defined), LAMBDA n : ~D_Has(coordinates, n))

IsolatedAttractions(isolated, coordinates) ==
    SelectSeq(isolated, LAMBDA e : D_Has(coordinates, e[1]))

\* Mutant: a preference is kept even when the name is isolated as well.
AttractionsWithPref_KeepIsolated(prefs, coordinates, isolated_attractions) ==
    SelectSeq(prefs, LAMBDA e : D_Has(coordinates, e[1]))

AttractionsWithPref(prefs, coordinates, isolated_attractions) ==
    SelectSeq(prefs, LAMBDA e : D_Has(coordinates, e[1])
                                /\ ~D_Has(isolated_attractions, e[1]))

FlexibleAttractions(attraction_names, isolated_attractions, attractions_with_pref) ==
    SelectSeq(attraction_names, LAMBDA n : ~D_Has(isolated_attractions, n)
                                           /\ ~D_Has(attractions_with_pref, n))

ReservedDays(isolated_attractions) == D_Values(isolated_attractions)

\* Mutant: no preference is ever found to point at a reserved day.
PrefsOnReservedDays_None(attractions_with_pref, reserved_days) == <<>>

PrefsOnReservedDays(attractions_with_pref, reserved_days) ==
    SelectSeq(attractions_with_pref, LAMBDA e : e[2] \in reserved_days)

\* The integers of S in ascending order (range(...), and the iteration order of a
\* set of small ints).
RECURSIVE Ascending(_)
Ascending(S) ==
    IF S = {} THEN <<>>
    ELSE LET m == CHOOSE x \in S : \A y \in S : x <= y
         IN  <<m>> \o Ascending(S \ {m})

\* Mutant: the reserved days are not taken out of the days given to k-means.
DaysForKmeans_AllDays(numDays, reserved_days) == Ascending(1..numDays)

DaysForKmeans(numDays, reserved_days) ==
    Ascending({d \in 1..numDays : d \notin reserved_days})

RECURSIVE GroupByDay_Overwrite(_, _)
\* Mutant: the day's list is replaced, not appended to.
GroupByDay_Overwrite(pairs, acc) ==
    IF pairs = <<>> THEN acc
    ELSE GroupByDay_Overwrite(Tail(pairs),
                              D_Set(acc, DayKey(pairs[1][2]), <<pairs[1][1]>>))

RECURSIVE GroupByDay(_, _)
\* result_by_day_unordered: setdefault(f"day_{day}", []).append(n) over the pairs.
GroupByDay(pairs, acc) ==
    IF pairs = <<>> THEN acc
    ELSE LET k == DayKey(pairs[1][2])
         IN  GroupByDay(Tail(pairs),
                        D_Set(acc, k, Append(D_GetOr(acc, k, <<>>), pairs[1][1])))

RECURSIVE OrderDays(_, _, _)
\* The dicts result_by_day that ordering every day of the grouping may give.
OrderDays(coordinates, unordered, starting_point) ==
    IF unordered = <<>> THEN {<<>>}
    ELSE LET day_key == unordered[1][1]
             attractions == unordered[1][2]
             day_starting_point ==
                 IF starting_point \in Range(attractions) THEN starting_point ELSE None
         IN  {<<(<<day_key, o>>)>> \o rest :
                 o \in order_attractions_nearest_neighbor(coordinates, attractions,
                                                          day_starting_point),
                 rest \in OrderDays(coordinates, Tail(unordered), starting_point)}

\* list(days_with_pref) + free_days
DaysWithPref(attractions_with_pref) == D_Values(attractions_with_pref)

FreeDays(days_for_kmeans, days_with_pref) ==
    SelectSeq(days_for_kmeans, LAMBDA d : d \notin days_with_pref)

\* Mutant: day 1 is offered when no day is left.
DaysForFlex_DefaultDay(days_with_pref, free_days) ==
    IF days_with_pref = {} /\ free_days = <<>> THEN <<1>>
    ELSE Ascending(days_with_pref) \o free_days

DaysForFlex(days_with_pref, free_days) == Ascending(days_with_pref) \o free_days

Min(a, b) == IF a <= b THEN a ELSE b

\* Mutant: one cluster per available day, however few attractions there are.
NClustersFlex_PerDay(days_for_flex, flexible_attractions) == Len(days_for_flex)

NClustersFlex(days_for_flex, flexible_attractions) ==
    Min(Len(days_for_flex), Len(flexible_attractions))

\* size_min = min_attractions_per_day if min_attractions_per_day else 0
SizeMin(min_attractions_per_day) ==
    IF min_attractions_per_day # NoneInt /\ min_attractions_per_day[1] # 0
    THEN min_attractions_per_day[1] ELSE 0

SizeMax(max_attractions_per_day, flexible_attractions) ==
    IF max_attractions_per_day # NoneInt /\ max_attractions_per_day[1] # 0
    THEN max_attractions_per_day[1] ELSE Len(flexible_attractions)

ClusterMembers(flexible_attractions, clusters_flex, cid) ==
    SelectSeq(flexible_attractions,
              LAMBDA n : clusters_flex[IndexOf(flexible_attractions, n)] = cid)

\* kmeans.fit_predict: one label in 0..k-1 per flexible attraction; KMeansConstrained
\* also keeps every cluster's size within [size_min, size_max].  Which labelling the
\* library returns is its own affair: any such labelling may result.
KMeansLabels(flexible_attractions, n_clusters, use_constrained, size_min, size_max) ==
    {l \in [1..Len(flexible_attractions) -> 0..(n_clusters - 1)] :
        use_constrained =>
            \A cid \in 0..(n_clusters - 1) :
                LET size == Cardinality({i \in 1..Len(flexible_attractions) : l[i] = cid})
                IN  size_min <= size /\ size <= size_max}

\* kmeans.cluster_centers_: the mean of a cluster's members; the centre of a
\* cluster left without members is one of the data points.
CenterChoices(coordinates, flexible_attractions, clusters_flex, cid) ==
    LET members == ClusterMembers(flexible_attractions, clusters_flex, cid)
    IN  IF members # <<>> THEN {calculate_centroid(coordinates, members)}
        ELSE {Point(D_Get(coordinates, n)) : n \in Range(flexible_attractions)}

KMeansCenters(coordinates, flexible_attractions, clusters_flex, n_clusters) ==
    LET cids == 0..(n_clusters - 1)
        all == UNION {CenterChoices(coordinates, flexible_attractions, clusters_flex, cid)
                         : cid \in cids}
    IN  {c \in [cids -> all] :
            \A cid \in cids :
                c[cid] \in CenterChoices(coordinates, flexible_attractions,
                                         clusters_flex, cid)}

\* pref_centroids: preference day -> centroid of the preferred attractions on it.
PrefCentroids(coordinates, attractions_with_pref) ==
    LET days == Ascending(DaysWithPref(attractions_with_pref))
    IN  [i \in 1..Len(days) |->
            <<days[i],
              calculate_centroid(coordinates,
                  D_Keys(SelectSeq(attractions_with_pref, LAMBDA e : e[2] = days[i])))>>]

\* Mutant: the lowest unassigned cluster is taken, whatever its distance.
BestCluster_First(pref_center, kmeans_centers, n_clusters, assigned_clusters) ==
    LET cand == {cid \in 0..(n_clusters - 1) : cid \notin assigned_clusters}
    IN  IF cand = {} THEN -1 ELSE CHOOSE cid \in cand : \A o \in cand : cid <= o

\* The unassigned cluster nearest to pref_center (strict <, so the lowest index
\* among the nearest), or -1 when every cluster is assigned.
BestCluster(pref_center, kmeans_centers, n_clusters, assigned_clusters) ==
    LET cand == {cid \in 0..(n_clusters - 1) : cid \notin assigned_clusters}
    IN  IF cand = {} THEN -1
        ELSE CHOOSE cid \in cand :
                \A o \in cand :
                    LET dc == geodesic(pref_center, kmeans_centers[cid])
                        do == geodesic(pref_center, kmeans_centers[o])
                    IN  DistLess(dc, do) \/ (DistEq(dc, do) /\ cid <= o)

RECURSIVE FirstPass(_, _, _, _)
\* First pass: each preference day claims the nearest unassigned cluster.
FirstPass(pref_centroids, kmeans_centers, n_clusters, acc) ==
    IF pref_centroids = <<>> THEN acc
    ELSE LET day == pref_centroids[1][1]
             best_cluster == BestCluster(pref_centroids[1][2], kmeans_centers,
                                         n_clusters, acc.assigned_clusters)
         IN  FirstPass(Tail(pref_centroids), kmeans_centers, n_clusters,
                 IF best_cluster # -1
                 THEN [cluster_to_day |-> D_Set(acc.cluster_to_day, best_cluster, day),
                       assigned_clusters |-> acc.assigned_clusters \cup {best_cluster},
                       assigned_days |-> acc.assigned_days \cup {day}]
                 ELSE acc)

RECURSIVE SecondPass(_, _, _, _, _)
\* Second pass: the remaining clusters take the free days, else any day left.
SecondPass(cid, n_clusters, free_days, days_for_flex, acc) ==
    IF cid >= n_clusters THEN acc
    ELSE IF cid \in acc.assigned_clusters
    THEN SecondPass(cid + 1, n_clusters, free_days, days_for_flex, acc)
    ELSE LET free == SelectSeq(free_days, LAMBDA d : d \notin acc.assigned_days)
             any == SelectSeq(days_for_flex, LAMBDA d : d \notin acc.assigned_days)
             day == IF free # <<>> THEN free[1] ELSE IF any # <<>> THEN any[1] ELSE 0
         IN  SecondPass(cid + 1, n_clusters, free_days, days_for_flex,
                 IF day # 0
                 THEN [cluster_to_day |-> D_Set(acc.cluster_to_day, cid, day),
                       assigned_clusters |-> acc.assigned_clusters,
                       assigned_days |-> acc.assigned_days \cup {day}]
                 ELSE acc)

\* Mutant: the second pass is left out.
ClusterToDay_FirstPassOnly(coordinates, attractions_with_pref, kmeans_centers, n_clusters, free_days, days_for_flex) ==
    IF attractions_with_pref # <<>>
    THEN FirstPass(PrefCentroids(coordinates, attractions_with_pref),
                   kmeans_centers, n_clusters,
                   [cluster_to_day |-> <<>>, assigned_clusters |-> {},
                    assigned_days |-> {}]).cluster_to_day
    ELSE [i \in 1..Min(n_clusters, Len(days_for_flex)) |-> <<i - 1, days_for_flex[i]>>]

ClusterToDay(coordinates, attractions_with_pref, kmeans_centers, n_clusters, free_days, days_for_flex) ==
    IF attractions_with_pref # <<>>
    THEN SecondPass(0, n_clusters, free_days, days_for_flex,
             FirstPass(PrefCentroids(coordinates, attractions_with_pref),
                       kmeans_centers, n_clusters,
                       [cluster_to_day |-> <<>>, assigned_clusters |-> {},
                        assigned_days |-> {}])).cluster_to_day
    ELSE [i \in 1..Min(n_clusters, Len(days_for_flex)) |-> <<i - 1, days_for_flex[i]>>]

\* day = cluster_to_day.get(cid, days_for_flex[0] if days_for_flex else 1)
FlexDay(cluster_to_day, cid, days_for_flex) ==
    D_GetOr(cluster_to_day, cid, IF days_for_flex # <<>> THEN days_for_flex[1] ELSE 1)

\* The clusters array of the clustering path (0-indexed days).
MixedClusters(attraction_names, isolated_attractions, attractions_with_pref, flexible_attractions, clusters_flex, cluster_to_day, days_for_flex) ==
    [idx \in 1..Len(attraction_names) |->
        LET name == attraction_names[idx]
        IN  IF name \in Range(flexible_attractions)
            THEN FlexDay(cluster_to_day,
                         clusters_flex[IndexOf(flexible_attractions, name)],
                         days_for_flex) - 1
            ELSE IF D_Has(attractions_with_pref, name)
            THEN D_Get(attractions_with_pref, name) - 1
            ELSE IF D_Has(isolated_attractions, name)
            THEN D_Get(isolated_attractions, name) - 1
            ELSE 0]

\* clusters of the all-predefined path: all_defined.get(n, 1) - 1
PredefinedClusters(attraction_names, all_defined) ==
    [idx \in 1..Len(attraction_names) |-> D_GetOr(all_defined, attraction_names[idx], 1) - 1]

OrgTool == "organize_attractions_by_days"

\* The arguments of a call; an argument the call never reads keeps its default.
OrgArgs(prefs, isolated) ==
    [day_preferences |-> prefs, isolated_days |-> isolated,
     optimize_order_by_distance |-> FALSE, starting_point |-> None,
     min_attractions_per_day |-> NoneInt, max_attractions_per_day |-> NoneInt]

\* What a call that returns before the cluster-to-day mapping leaves of its locals.
NoLocals == [mapped |-> FALSE]

OrgError(args, kind, detail) ==
    [ok |-> FALSE, args |-> args, clusters |-> <<>>, organized_days |-> <<>>,
     has_flexible_attractions |-> FALSE, msg |-> ToolMessage(OrgTool, kind, detail),
     locals |-> NoLocals]

OrgSuccess(args, newClusters, result_by_day, flexible, mode) ==
    [ok |-> TRUE, args |-> args, clusters |-> newClusters,
     organized_days |-> result_by_day, has_flexible_attractions |-> flexible,
     msg |-> ToolMessage(OrgTool, mode, result_by_day), locals |-> NoLocals]

\* SCENARIO 1: every attraction has a day (all in prefs or isolated).
PredefinedUpdates(args, coordinates, attraction_names, all_defined, OptInputs, StartInputs) ==
    LET result_by_day_unordered == GroupByDay(all_defined, <<>>)
        newClusters == PredefinedClusters(attraction_names, all_defined)
    IN  UNION {
          IF optimize_order_by_distance
          THEN UNION {{OrgSuccess([args EXCEPT !.optimize_order_by_distance = TRUE,
                                               !.starting_point = starting_point],
                                  newClusters, result_by_day, FALSE, "predefined") :
                          result_by_day \in OrderDays(coordinates, result_by_day_unordered,
                                                      starting_point)}
                        : starting_point \in StartInputs}
          ELSE {OrgSuccess(args, newClusters, result_by_day_unordered, FALSE, "predefined")}
          : optimize_order_by_distance \in OptInputs}

\* SCENARIO 2 after the feasibility checks: k-means, cluster-to-day mapping,
\* grouping by day and ordering inside each day.
ClusteringUpdates(args, coordinates, attraction_names, isolated_attractions, attractions_with_pref, flexible_attractions, free_days, days_for_flex, n_clusters_flex, use_constrained, size_min, size_max, StartInputs) ==
    LET mode == IF isolated_attractions = <<>> /\ attractions_with_pref = <<>>
                THEN "kmeans" ELSE "mixed"
    IN  UNION {UNION {
          LET cluster_to_day == ClusterToDay(coordinates, attractions_with_pref,
                                    kmeans_centers, n_clusters_flex, free_days, days_for_flex)
              newClusters == MixedClusters(attraction_names, isolated_attractions,
                                 attractions_with_pref, flexible_attractions, clusters_flex,
                                 cluster_to_day, days_for_flex)
              result_by_day_unordered ==
                  GroupByDay([idx \in 1..Len(attraction_names) |->
                                 <<attraction_names[idx], newClusters[idx] + 1>>], <<>>)
              locals == [mapped |-> TRUE, n_clusters_flex |-> n_clusters_flex,
                         clusters_flex |-> clusters_flex, kmeans_centers |-> kmeans_centers,
                         free_days |-> free_days, days_for_flex |-> days_for_flex,
                         cluster_to_day |-> cluster_to_day]
          IN  UNION {{[OrgSuccess([args EXCEPT !.starting_point = starting_point],
                                  newClusters, result_by_day, TRUE, mode)
                          EXCEPT !.locals = locals] :
                         result_by_day \in OrderDays(coordinates, result_by_day_unordered,
                                                     starting_point)}
                       : starting_point \in StartInputs}
          : kmeans_centers \in
                (IF attractions_with_pref # <<>>
                 THEN KMeansCenters(coordinates, flexible_attractions, clusters_flex,
                                    n_clusters_flex)
                 ELSE {<<>>})}
        : clusters_flex \in KMeansLabels(flexible_attractions, n_clusters_flex,
                                         use_constrained, size_min, size_max)}

FlexibleUpdates(args, coordinates, attraction_names, isolated_attractions, attractions_with_pref, flexible_attractions, days_for_kmeans, StartInputs) ==
    LET days_with_pref == DaysWithPref(attractions_with_pref)
        free_days == FreeDays(days_for_kmeans, days_with_pref)
        days_for_flex == DaysForFlex(days_with_pref, free_days)
        n_clusters_flex == NClustersFlex(days_for_flex, flexible_attractions)
        use_constrained == args.min_attractions_per_day # NoneInt
                           \/ args.max_attractions_per_day # NoneInt
        size_min == SizeMin(args.min_attractions_per_day)
        size_max == SizeMax(args.max_attractions_per_day, flexible_attractions)
        total_attractions == Len(flexible_attractions)
    IN  IF days_for_flex = <<>>
        THEN {OrgError(args, "no_days_available", <<>>)}
        ELSE IF use_constrained /\ size_min * n_clusters_flex > total_attractions
        THEN {OrgError(args, "impossible_min", <<size_min, n_clusters_flex>>)}
        ELSE IF use_constrained /\ size_max * n_clusters_flex < total_attractions
        THEN {OrgError(args, "impossible_max", <<size_max, n_clusters_flex>>)}
        ELSE ClusteringUpdates(args, coordinates, attraction_names, isolated_attractions,
                 attractions_with_pref, flexible_attractions, free_days, days_for_flex,
                 n_clusters_flex, use_constrained, size_min, size_max, StartInputs)

\* Everything after the min/max argument checks.
GroupUpdates(args, coordinates, numDays, OptInputs, StartInputs) ==
    LET prefs == args.day_preferences
        isolated == args.isolated_days
        attraction_names == D_Keys(coordinates)
        all_defined == AllDefined(prefs, isolated)
        attractions_without_coords == AttractionsWithoutCoords(all_defined, coordinates)
        isolated_attractions == IsolatedAttractions(isolated, coordinates)
        attractions_with_pref ==
            AttractionsWithPref(prefs, coordinates, isolated_attractions)
        flexible_attractions ==
            FlexibleAttractions(attraction_names, isolated_attractions, attractions_with_pref)
        reserved_days == ReservedDays(isolated_attractions)
        prefs_on_reserved_days == PrefsOnReservedDays(attractions_with_pref, reserved_days)
        days_for_kmeans == DaysForKmeans(numDays, reserved_days)
    IN  IF attractions_without_coords # <<>>
        THEN {OrgError(args, "without_coordinates", attractions_without_coords)}
        ELSE IF prefs_on_reserved_days # <<>>
        THEN {OrgError(args, "prefs_on_reserved_days", prefs_on_reserved_days)}
        ELSE IF Len(flexible_attractions) = 0
        THEN PredefinedUpdates(args, coordinates, attraction_names, all_defined,
                               OptInputs, StartInputs)
        ELSE FlexibleUpdates(args, coordinates, attraction_names, isolated_attractions,
                 attractions_with_pref, flexible_attractions, days_for_kmeans, StartInputs)

\* The Command updates a call with the given day_preferences and isolated_days may
\* return, for every choice of the other arguments, once the coordinates are there.
OrganizeUpdates(coordinates, numDays, prefs, isolated, OptInputs, StartInputs, MinInputs, MaxInputs) ==
    LET vp == validate_day_assignments(prefs, numDays)
        vi == validate_day_assignments(isolated, numDays)
        args == OrgArgs(prefs, isolated)
    IN  IF ~vp.valid
        THEN {OrgError(args, "invalid_day_preferences", <<vp.name, vp.day>>)}
        ELSE IF ~vi.valid
        THEN {OrgError(args, "invalid_isolated_days", <<vi.name, vi.day>>)}
        ELSE UNION {
               LET a == [args EXCEPT !.min_attractions_per_day = mn,
                                     !.max_attractions_per_day = mx]
               IN  IF mn # NoneInt /\ mn[1] < 1 THEN {OrgError(a, "min_lt_1", <<>>)}
                   ELSE IF mx # NoneInt /\ mx[1] < 1 THEN {OrgError(a, "max_lt_1", <<>>)}
                   ELSE IF mn # NoneInt /\ mx # NoneInt /\ mn[1] > mx[1]
                   THEN {OrgError(a, "min_gt_max", <<>>)}
                   ELSE GroupUpdates(a, coordinates, numDays, OptInputs, StartInputs)
               : mn \in MinInputs, mx \in MaxInputs}

\* The failure of a call made before the coordinates are there, else "none".
CoordinatesError(coordinates, all_coords_ok) ==
    IF ~all_coords_ok THEN "incomplete_coordinates"
    ELSE IF coordinates = <<>> THEN "no_coordinates"
    ELSE "none"

\* Command(update=...) of organize_attractions_by_days applied to the state.
ApplyOrganize(upd) ==
    /\ IF upd.ok
       THEN /\ clusters' = upd.clusters
            /\ organized_days' = upd.organized_days
            /\ has_flexible_attractions' = upd.has_flexible_attractions
       ELSE UNCHANGED <<clusters, organized_days, has_flexible_attractions>>
    /\ tool_calls' = tool_calls \cup {OrgTool}
    /\ last_tool_call' = [name |-> OrgTool, args |-> upd.args]
    /\ last_tool_message' = upd.msg
    /\ clustering_locals' = upd.locals
    /\ UNCHANGED <<routeVars, num_days, submitted_names, attraction_coordinates, all_coordinates_obtained,
                   itinerary_approved, user_feedback, invalid_input>>
    /\ UNCHANGED <<flowVars, taskVars>>

organize_attractions_by_days(PrefInputs, IsoInputs, OptInputs, StartInputs, MinInputs, MaxInputs) ==
    /\ pc = "agent"
    /\ LET early == CoordinatesError(attraction_coordinates, all_coordinates_obtained)
       IN  IF early # "none"
           THEN ApplyOrganize(OrgError(OrgArgs(<<>>, <<>>), early, <<>>))
           ELSE \E day_preferences \in PrefInputs, isolated_days \in IsoInputs :
                  \E upd \in OrganizeUpdates(attraction_coordinates, num_days,
                                             day_preferences, isolated_days,
                                             OptInputs, StartInputs, MinInputs, MaxInputs) :
                     ApplyOrganize(upd)

(***************************************************************************)
(* update_itinerary_organization                                           *)
(***************************************************************************)
UpdTool == "update_itinerary_organization"

RECURSIVE AllAttractionsInNew(_)
\* all_attractions_in_new: the set of the names in the day lists
AllAttractionsInNew(new_organized_days) ==
    IF new_organized_days = <<>> THEN {}
    ELSE Range(new_organized_days[1][2]) \cup AllAttractionsInNew(Tail(new_organized_days))

RECURSIVE FlattenDays(_)
\* The <<name, day>> pairs in the order the two loops visit them.
FlattenDays(new_organized_days) ==
    IF new_organized_days = <<>> THEN <<>>
    ELSE [j \in 1..Len(new_organized_days[1][2]) |->
             <<new_organized_days[1][2][j], DayNum(new_organized_days[1][1])>>]
         \o FlattenDays(Tail(new_organized_days))

RECURSIVE RecalculateClusters(_, _, _)
\* clusters[idx] = day_num for every listed name, later writes replacing earlier ones
RecalculateClusters(attraction_names, pairs, acc) ==
    IF pairs = <<>> THEN acc
    ELSE LET idx == IndexOf(attraction_names, pairs[1][1])
         IN  RecalculateClusters(attraction_names, Tail(pairs),
                 IF idx = 0 THEN acc ELSE [acc EXCEPT ![idx] = pairs[1][2] - 1])

\* missing_attractions = set(attraction_names) - all_attractions_in_new
MissingAttractions(attraction_names, new_organized_days) ==
    Range(attraction_names) \ AllAttractionsInNew(new_organized_days)

\* extra_attractions = all_attractions_in_new - set(attraction_names)
ExtraAttractions(attraction_names, new_organized_days) ==
    AllAttractionsInNew(new_organized_days) \ Range(attraction_names)

UpdError(new_organized_days, kind, detail) ==
    /\ UNCHANGED <<clusters, organized_days>>
    /\ last_tool_message' = ToolMessage(UpdTool, kind, detail)

update_itinerary_organization(NewDaysInputs) ==
    /\ pc = "agent"
    /\ \E new_organized_days \in NewDaysInputs :
           LET coordinates == attraction_coordinates
               attraction_names == D_Keys(coordinates)
               missing_attractions == MissingAttractions(attraction_names, new_organized_days)
               extra_attractions == ExtraAttractions(attraction_names, new_organized_days)
           IN  /\ IF coordinates = <<>>
                  THEN UpdError(new_organized_days, "no_coordinates", {})
                  ELSE IF missing_attractions # {}
                  THEN UpdError(new_organized_days, "missing_attractions", missing_attractions)
                  ELSE IF extra_attractions # {}
                  THEN UpdError(new_organized_days, "unknown_attractions", extra_attractions)
                  ELSE /\ clusters' = RecalculateClusters(attraction_names,
                                          FlattenDays(new_organized_days),
                                          [i \in 1..Len(attraction_names) |-> 0])
                       /\ organized_days' = new_organized_days
                       /\ last_tool_message' = ToolMessage(UpdTool, "updated", new_organized_days)
               /\ tool_calls' = tool_calls \cup {UpdTool}
               /\ last_tool_call' = [name |-> UpdTool, args |-> new_organized_days]
               /\ UNCHANGED <<routeVars, clustering_locals, num_days, submitted_names, attraction_coordinates, all_coordinates_obtained,
                              has_flexible_attractions, itinerary_approved, user_feedback,
                              invalid_input>>
               /\ UNCHANGED <<flowVars, taskVars>>

(***************************************************************************)
(* request_itinerary_approval and return_invalid_input_error               *)
(***************************************************************************)
ApprovalTool == "request_itinerary_approval"

ErrorTool == "return_invalid_input_error"

\* The answers the user may type at the approval prompt.
UserResponses == {"yes", " Yes", "OK", "no", "move A to day 2"}

\* str(user_response).lower().strip()
LowerStrip(user_response) ==
    CASE user_response = " Yes" -> "yes"
      [] user_response = "OK" -> "ok"
      [] OTHER -> user_response

ApprovedWords == {"yes", "ok", "okay", "approved", "approve", "sim", "si", "oui", "y"}

IsApproved(user_response) == LowerStrip(user_response) \in ApprovedWords

RECURSIVE ItineraryDisplay(_, _)
\* itinerary_display: the days of the grouping from day `day` on, by ascending day number
ItineraryDisplay(grouping, day) ==
    IF day > MaxDays + 1 THEN <<>>
    ELSE (IF D_Has(grouping, DayKey(day))
          THEN <<[day |-> day, attractions |-> D_Get(grouping, DayKey(day))]>>
          ELSE <<>>)
         \o ItineraryDisplay(grouping, day + 1)

\* The tool call up to interrupt(): without a grouping it answers with an error,
\* otherwise the run pauses until the node resumes it.
request_itinerary_approval ==
    /\ pc = "agent"
    /\ IF organized_days = <<>>
       THEN /\ last_tool_message' = ToolMessage(ApprovalTool, "no_organized_days", <<>>)
            /\ pc' = "agent"
       ELSE /\ last_tool_message' = last_tool_message
            /\ pc' = "interrupt"
    /\ tool_calls' = tool_calls \cup {ApprovalTool}
    /\ last_tool_call' = [name |-> ApprovalTool, args |-> <<>>]
    /\ UNCHANGED <<routeVars, clustering_locals, num_days, submitted_names, attraction_coordinates, all_coordinates_obtained, clusters,
                   organized_days, has_flexible_attractions, itinerary_approved,
                   user_feedback, invalid_input>>
    /\ UNCHANGED <<retry_count, attempts, approval_rounds, organizer_outcome,
                   structured_response, attractions_by_day>>
    /\ UNCHANGED taskVars

\* The resumes are counted up to MaxRounds; further ones leave the count there.
MaxRounds == 4

\* Mutant: an answer that asks for changes uses up one retry.
resume_itinerary_approval_CountsRetry(ResponseInputs) ==
    /\ pc = "interrupt"
    /\ \E user_response \in ResponseInputs :
          LET is_approved == IsApproved(user_response)
          IN  /\ itinerary_approved' = is_approved
              /\ user_feedback' = IF is_approved THEN user_feedback ELSE user_response
              /\ retry_count' = IF is_approved THEN retry_count ELSE retry_count + 1
              /\ last_tool_message' =
                    ToolMessage(ApprovalTool,
                                IF is_approved THEN "approved" ELSE "changes_requested",
                                user_response)
    /\ approval_rounds' = Min(approval_rounds + 1, MaxRounds)
    /\ pc' = "agent"
    /\ UNCHANGED <<routeVars, clustering_locals, num_days, submitted_names, attraction_coordinates, all_coordinates_obtained, clusters,
                   organized_days, has_flexible_attractions, invalid_input, tool_calls,
                   last_tool_call>>
    /\ UNCHANGED <<attempts, organizer_outcome, structured_response, attractions_by_day>>
    /\ UNCHANGED taskVars

\* The node asks the user and resumes the tool with the answer.
resume_itinerary_approval(ResponseInputs) ==
    /\ pc = "interrupt"
    /\ \E user_response \in ResponseInputs :
          LET is_approved == IsApproved(user_response)
          IN  /\ itinerary_approved' = is_approved
              /\ user_feedback' = IF is_approved THEN user_feedback ELSE user_response
              /\ last_tool_message' =
                    ToolMessage(ApprovalTool,
                                IF is_approved THEN "approved" ELSE "changes_requested",
                                user_response)
    /\ approval_rounds' = Min(approval_rounds + 1, MaxRounds)
    /\ pc' = "agent"
    /\ UNCHANGED <<routeVars, clustering_locals, num_days, submitted_names, attraction_coordinates, all_coordinates_obtained, clusters,
                   organized_days, has_flexible_attractions, invalid_input, tool_calls,
                   last_tool_call>>
    /\ UNCHANGED <<retry_count, attempts, organizer_outcome, structured_response,
                   attractions_by_day>>
    /\ UNCHANGED taskVars

return_invalid_input_error ==
    /\ pc = "agent"
    /\ invalid_input' = TRUE
    /\ tool_calls' = tool_calls \cup {ErrorTool}
    /\ last_tool_call' = [name |-> ErrorTool, args |-> <<>>]
    /\ last_tool_message' = ToolMessage(ErrorTool, "invalid_input", <<>>)
    /\ UNCHANGED <<routeVars, clustering_locals, num_days, submitted_names, attraction_coordinates, all_coordinates_obtained, clusters,
                   organized_days, has_flexible_attractions, itinerary_approved,
                   user_feedback>>
    /\ UNCHANGED <<flowVars, taskVars>>

(***************************************************************************)
(* The validation middlewares                                              *)
(***************************************************************************)
\* ClusteringToolValidatorMiddleware.after_agent: TRUE when it returns the state,
\* FALSE when it raises StructuredOutputValidationError.
ClusteringToolValidator(calls, flexible) ==
    LET organization_tool_called == OrgTool \in calls
        approval_tool_called == ApprovalTool \in calls
        error_tool_called == ErrorTool \in calls
    IN  IF error_tool_called THEN TRUE
        ELSE IF ~organization_tool_called THEN FALSE
        ELSE ~(flexible /\ ~approval_tool_called)

validate_organized_itinerary(output) ==
    /\ output.document_title # ""
    /\ output.attractions_by_day # <<>>
    /\ \A idx \in 1..Len(output.attractions_by_day) :
          output.attractions_by_day[idx].attractions # <<>>

\* StructuredOutputValidatorMiddleware.after_agent with validator_func
OrganizedItineraryValidator(invalid, response) ==
    IF invalid THEN TRUE
    ELSE IF ~response.present THEN TRUE
    ELSE validate_organized_itinerary(response)

(***************************************************************************)
(* day_organizer_node                                                      *)
(***************************************************************************)
\* int(os.getenv("STRUCTURED_OUTPUT_MAX_RETRIES", "3"))
max_retries == 3

NoResponse == [present |-> FALSE, document_title |-> "", attractions_by_day |-> <<>>]

OrganizedItinerary(document_title, days) ==
    [present |-> TRUE, document_title |-> document_title, attractions_by_day |-> days]

DayOrganization(day, attractions) == [day |-> day, attractions |-> attractions]

\* Mutant: one more retry is allowed before giving up.
RetriesExhausted_OneMore(count) == count > max_retries + 1

\* if retry_count > max_retries; the loop condition retry_count <= max_retries is its
\* negation
RetriesExhausted(count) == count > max_retries

\* The top of the retry loop: one more invocation of the agent.
day_organizer_node ==
    /\ pc = "day_organizer_node"
    /\ ~RetriesExhausted(retry_count)
    /\ attempts' = attempts + 1
    /\ pc' = "agent"
    /\ UNCHANGED <<retry_count, approval_rounds, organizer_outcome, structured_response,
                   attractions_by_day>>
    /\ UNCHANGED <<orgVars, routeVars, taskVars>>

\* Mutant: the fallback hands on the days of the agent's last answer.
OrganizerFallback_LastAnswer ==
    /\ attractions_by_day' = structured_response.attractions_by_day
    /\ clusters' = <<>>
    /\ attraction_coordinates' = merge_dicts(InitialCoordinates, <<>>)
    /\ invalid_input' = FALSE
    /\ organizer_outcome' = "fallback"
    /\ pc' = "assign_workers_node"

\* The dict the node returns when it gives up, merged into the graph state.
OrganizerFallback ==
    /\ attractions_by_day' = <<>>
    /\ clusters' = <<>>
    /\ attraction_coordinates' = merge_dicts(InitialCoordinates, <<>>)
    /\ invalid_input' = FALSE
    /\ organizer_outcome' = "fallback"
    /\ pc' = "assign_workers_node"

\* except StructuredOutputValidationError / except anthropic.RateLimitError
OrganizerRetry ==
    /\ retry_count' = retry_count + 1
    /\ IF RetriesExhausted(retry_count + 1)
       THEN OrganizerFallback
       ELSE /\ pc' = "day_organizer_node"
            /\ UNCHANGED <<attractions_by_day, clusters, attraction_coordinates,
                           invalid_input, organizer_outcome>>

\* The agent ends its loop with a final answer; the middlewares check the run and the
\* node either returns the result or handles the validation error.
organizer_agent_finish(ResponseInputs) ==
    /\ pc = "agent"
    /\ \E response \in ResponseInputs :
          /\ structured_response' = response
          /\ IF /\ ClusteringToolValidator(tool_calls, has_flexible_attractions)
                /\ OrganizedItineraryValidator(invalid_input, response)
             THEN /\ attractions_by_day' = response.attractions_by_day
                  /\ attraction_coordinates' =
                        merge_dicts(InitialCoordinates, attraction_coordinates)
                  /\ organizer_outcome' = "success"
                  /\ pc' = "assign_workers_node"
                  /\ UNCHANGED <<retry_count, clusters, invalid_input>>
             ELSE OrganizerRetry
    /\ UNCHANGED <<routeVars, clustering_locals, num_days, submitted_names, all_coordinates_obtained, organized_days,
                   has_flexible_attractions, itinerary_approved, user_feedback,
                   tool_calls, last_tool_call, last_tool_message, attempts, approval_rounds>>
    /\ UNCHANGED taskVars

\* A model call of the agent raises anthropic.RateLimitError.
organizer_rate_limit ==
    /\ pc = "agent"
    /\ OrganizerRetry
    /\ UNCHANGED <<routeVars, clustering_locals, num_days, submitted_names, all_coordinates_obtained, organized_days,
                   has_flexible_attractions, itinerary_approved, user_feedback,
                   tool_calls, last_tool_call, last_tool_message, attempts, approval_rounds,
                   structured_response>>
    /\ UNCHANGED taskVars

\* Any other exception inside the try block.
organizer_unexpected_error ==
    /\ pc \in {"agent", "interrupt"}
    /\ OrganizerFallback
    /\ UNCHANGED <<routeVars, clustering_locals, num_days, submitted_names, all_coordinates_obtained, organized_days,
                   has_flexible_attractions, itinerary_approved, user_feedback,
                   tool_calls, last_tool_call, last_tool_message, attempts, approval_rounds,
                   structured_response, retry_count>>
    /\ UNCHANGED taskVars

(***************************************************************************)
(* assign_workers_node                                                     *)
(***************************************************************************)
\* The state Send() hands to attraction_researcher_node, with the node's locals.
ResearchTask(day_data) ==
    [day_number |-> day_data.day, attractions |-> day_data.attractions,
     pc |-> "pending", retry_count |-> 0, attempts |-> 0,
     structured_response |-> <<>>, outcome |-> "none", result |-> <<>>]

\* Mutant: the fan-out does not look at invalid_input.
assign_workers_node_IgnoreInvalid ==
    /\ pc = "assign_workers_node"
    /\ IF attractions_by_day = <<>>
       THEN /\ pc' = "END"
            /\ UNCHANGED tasks
       ELSE /\ tasks' = [i \in 1..Len(attractions_by_day) |->
                            ResearchTask(attractions_by_day[i])]
            /\ pc' = "attraction_researcher_node"
    /\ UNCHANGED <<batches, processed_attractions, document, costs_by_currency,
                   final_document_path>>
    /\ UNCHANGED <<retry_count, attempts, approval_rounds, organizer_outcome,
                   structured_response, attractions_by_day>>
    /\ UNCHANGED <<orgVars, routeVars>>

assign_workers_node ==
    /\ pc = "assign_workers_node"
    /\ IF invalid_input
       THEN /\ pc' = "END"
            /\ UNCHANGED tasks
       ELSE IF attractions_by_day = <<>>
       THEN /\ pc' = "END"
            /\ UNCHANGED tasks
       ELSE /\ tasks' = [i \in 1..Len(attractions_by_day) |->
                            ResearchTask(attractions_by_day[i])]
            /\ pc' = "attraction_researcher_node"
    /\ UNCHANGED <<batches, processed_attractions, document, costs_by_currency,
                   final_document_path>>
    /\ UNCHANGED <<retry_count, attempts, approval_rounds, organizer_outcome,
                   structured_response, attractions_by_day>>
    /\ UNCHANGED <<orgVars, routeVars>>

(***************************************************************************)
(* attraction_researcher_node                                              *)
(***************************************************************************)
\* An AttractionResearchResult; costs are whole currency units.
AttractionResearchResult(name, day_number, description, images, estimated_cost, currency) ==
    [name |-> name, day_number |-> day_number, description |-> description,
     images |-> images, ticket_info |-> <<>>, useful_links |-> <<>>,
     estimated_cost |-> estimated_cost, currency |-> currency]

\* A DayResearchResult; <<>> stands for a run that ended without structured_response.
DayResearchResult(day_number, attractions) ==
    <<[day_number |-> day_number, attractions |-> attractions]>>

validate_day_research_result(output) ==
    /\ output.attractions # <<>>
    /\ \A idx \in 1..Len(output.attractions) : output.attractions[idx].name # ""

\* Mutant: the fallback records are all filed under day 1.
FallbackRecords_DayOne(attractions, day_number) ==
    [i \in 1..Len(attractions) |->
        [name |-> attractions[i], day_number |-> 1, description |-> "",
         images |-> <<>>, ticket_info |-> <<>>, useful_links |-> <<>>,
         estimated_cost |-> 0, currency |-> "EUR"]]

\* The minimal fallback returned when the node gives up.
FallbackRecords(attractions, day_number) ==
    [i \in 1..Len(attractions) |->
        [name |-> attractions[i], day_number |-> day_number, description |-> "",
         images |-> <<>>, ticket_info |-> <<>>, useful_links |-> <<>>,
         estimated_cost |-> 0, currency |-> "EUR"]]

TaskFallback(task) ==
    [task EXCEPT !.pc = "done", !.outcome = "fallback",
                 !.result = FallbackRecords(task.attractions, task.day_number)]

\* Mutant: a success after a retry returns the fallback records.
TaskSuccess_FallbackAfterRetry(task, response) ==
    [task EXCEPT !.pc = "done", !.outcome = "success",
                 !.result = IF task.retry_count > 0
                            THEN FallbackRecords(task.attractions, task.day_number)
                            ELSE response[1].attractions]

\* return {"processed_attractions": attractions_results}
TaskSuccess(task, response) ==
    [task EXCEPT !.pc = "done", !.outcome = "success",
                 !.result = response[1].attractions]

\* except StructuredOutputValidationError / except anthropic.RateLimitError
TaskRetry(task) ==
    LET counted == [task EXCEPT !.retry_count = task.retry_count + 1]
    IN  IF RetriesExhausted(counted.retry_count) THEN TaskFallback(counted) ELSE counted

\* Mutant: an unexpected exception leaves the node.
TaskUnexpectedError_Propagate(task) == [task EXCEPT !.pc = "raised"]

\* except Exception
TaskUnexpectedError(task) == TaskFallback(task)

\* One more invocation of the agent by task i.
TaskAttempt(i) ==
    [tasks[i] EXCEPT !.attempts = tasks[i].attempts + 1]

TaskRunning(i) ==
    /\ pc = "attraction_researcher_node"
    /\ i \in 1..Len(tasks)
    /\ tasks[i].pc \in {"pending", "running"}
    /\ ~RetriesExhausted(tasks[i].retry_count)

\* The node's return value is reduced into processed_attractions by operator.add.
TaskStep(i, after) ==
    /\ tasks' = [tasks EXCEPT ![i] = IF after.pc = "pending"
                                     THEN [after EXCEPT !.pc = "running"]
                                     ELSE after]
    /\ IF after.pc = "done"
       THEN /\ processed_attractions' = processed_attractions \o after.result
            /\ batches' = Append(batches, i)
       ELSE UNCHANGED <<processed_attractions, batches>>
    /\ UNCHANGED <<document, costs_by_currency, final_document_path>>
    /\ UNCHANGED <<orgVars, routeVars, flowVars>>

\* What the researcher may say about one attraction.
RecordInputs(name, DayChoices, CostChoices) ==
    {AttractionResearchResult(name, d, "text", <<"img">>, c[1], c[2]) :
        d \in DayChoices, c \in CostChoices}

\* Final answers of the researcher of a task: none, an empty list, and one record
\* per attraction of the task in the task's order.
ResearchInputs(task, DayChoices, CostChoices) ==
    {<<>>, DayResearchResult(task.day_number, <<>>)}
    \cup {DayResearchResult(task.day_number, records) :
            records \in {rs \in [1..Len(task.attractions) ->
                                   UNION {RecordInputs(n, DayChoices, CostChoices) :
                                             n \in Range(task.attractions)}] :
                            \A j \in 1..Len(task.attractions) :
                                rs[j] \in RecordInputs(task.attractions[j], DayChoices, CostChoices)}}

\* An attempt whose agent run ends with a final answer, or with none.
researcher_agent_finish(DayChoices, CostChoices) ==
    \E i \in 1..Len(tasks) :
        /\ TaskRunning(i)
        /\ \E response \in ResearchInputs(tasks[i], DayChoices, CostChoices) :
              LET task == [TaskAttempt(i) EXCEPT !.structured_response = response]
              IN  TaskStep(i, IF response = <<>> THEN TaskUnexpectedError(task)
                                ELSE IF validate_day_research_result(response[1])
                                THEN TaskSuccess(task, response)
                                ELSE TaskRetry(task))

\* An attempt in which a model call raises anthropic.RateLimitError.
researcher_rate_limit ==
    \E i \in 1..Len(tasks) :
        /\ TaskRunning(i)
        /\ TaskStep(i, TaskRetry(TaskAttempt(i)))

\* An attempt in which any other exception is raised.
researcher_unexpected_error ==
    \E i \in 1..Len(tasks) :
        /\ TaskRunning(i)
        /\ TaskStep(i, TaskUnexpectedError(TaskAttempt(i)))

(***************************************************************************)
(* build_document_node                                                     *)
(***************************************************************************)
\* The day numbers of the records.
RecordDays(records) == {records[i].day_number : i \in 1..Len(records)}

\* attractions_by_day[day_number]: the records of the day, in the order they were reduced
RecordsOfDay(records, day_number) ==
    SelectSeq(records, LAMBDA r : r.day_number = day_number)

RECURSIVE DaySections(_, _)
\* for day_number in sorted(attractions_by_day.keys())
DaySections(records, days) ==
    IF days = <<>> THEN <<>>
    ELSE <<[day |-> days[1],
            attractions |-> [j \in 1..Len(RecordsOfDay(records, days[1])) |->
                                RecordsOfDay(records, days[1])[j].name]]>>
         \o DaySections(records, Tail(days))

RECURSIVE SortedRecords(_, _)
\* The records in the order the two loops visit them.
SortedRecords(records, days) ==
    IF days = <<>> THEN <<>>
    ELSE RecordsOfDay(records, days[1]) \o SortedRecords(records, Tail(days))

RECURSIVE CostsByCurrency_CountZero(_, _)
\* Mutant: a record of cost zero opens an entry for its currency.
CostsByCurrency_CountZero(records, acc) ==
    IF records = <<>> THEN acc
    ELSE CostsByCurrency_CountZero(Tail(records),
            D_Set(acc, records[1].currency,
                  D_GetOr(acc, records[1].currency, 0) + records[1].estimated_cost))

RECURSIVE CostsByCurrency(_, _)
\* if cost > 0: costs_by_currency[currency] += cost
CostsByCurrency(records, acc) ==
    IF records = <<>> THEN acc
    ELSE CostsByCurrency(Tail(records),
            IF records[1].estimated_cost > 0
            THEN D_Set(acc, records[1].currency,
                       D_GetOr(acc, records[1].currency, 0) + records[1].estimated_cost)
            ELSE acc)

DocumentPaths == {"", "itinerary.docx"}

build_document_node ==
    /\ pc = "attraction_researcher_node"
    /\ \A i \in 1..Len(tasks) : tasks[i].pc = "done"
    /\ LET days == Ascending(RecordDays(processed_attractions))
       IN  IF processed_attractions = <<>>
           THEN /\ final_document_path' = ""
                /\ costs_by_currency' = <<>>
                /\ UNCHANGED document
           ELSE /\ document' = DaySections(processed_attractions, days)
                /\ costs_by_currency' =
                      CostsByCurrency(SortedRecords(processed_attractions, days), <<>>)
                /\ final_document_path' \in DocumentPaths
    /\ pc' = "END"
    /\ UNCHANGED <<tasks, batches, processed_attractions>>
    /\ UNCHANGED <<retry_count, attempts, approval_rounds, organizer_outcome,
                   structured_response, attractions_by_day>>
    /\ UNCHANGED <<orgVars, routeVars>>

(***************************************************************************)
(* Inputs the caller (the agent's model) may pass to the tools             *)
(***************************************************************************)
\* The dict with the entries of f, its keys in the canonical order.
DictOf(f) ==
    LET keys == SelectSeq(NameOrder, LAMBDA n : n \in DOMAIN f)
    IN  [i \in 1..Len(keys) |-> <<keys[i], f[keys[i]]>>]

InputDicts(KeySet, Vals) == {DictOf(f) : f \in UNION {[K -> Vals] : K \in SUBSET KeySet}}

\* The address the caller gives for a name.
Address(n) == CASE n = "A" -> "pA" [] n = "B" -> "pB" [] n = "C" -> "pC" [] OTHER -> "pA2"

Reverse(s) == [i \in 1..Len(s) |-> s[Len(s) + 1 - i]]

\* Any set of names, in the canonical order or in the opposite order.
AttractionInputs ==
    LET canonical == {DictOf([n \in K |-> Address(n)]) : K \in SUBSET Names}
    IN  canonical \cup {Reverse(d) : d \in canonical}

DayInputs == InputDicts(Names, 1..MaxDays)

OptIntInputs == {NoneInt} \cup {SomeInt(n) : n \in 1..2}

StartInputs == {None} \cup Names

(***************************************************************************)
(* The day organizer's tools, called in any order                          *)
(***************************************************************************)
MaxListLen == 2

\* The lists of at most MaxListLen names, the unknown name "Z" included.
NameLists == UNION {[1..k -> Range(NameOrder)] : k \in 0..MaxListLen}

\* Replacement groupings: one or two day keys, in either order; the day keys are
\* not limited to [1, num_days].
GroupingInputs ==
    {<<<<DayKey(d), l>>>> : d \in 1..(MaxDays + 1), l \in NameLists}
    \cup {<<<<DayKey(d1), l1>>, <<DayKey(d2), l2>>>> :
             <<d1, d2>> \in {p \in (1..(MaxDays + 1)) \X (1..(MaxDays + 1)) : p[1] # p[2]},
             <<l1, l2>> \in NameLists \X NameLists}

NoMessage == ToolMessage("none", "none", <<>>)

NoRouteCall == [coordinates |-> <<>>, attractions |-> <<>>, starting_point |-> None]

NoRouteResult == [returned |-> FALSE, ordered |-> <<>>]

InitOrg ==
    /\ num_days \in 1..MaxDays
    /\ attraction_coordinates = <<>>
    /\ all_coordinates_obtained = FALSE
    /\ clusters = <<>>
    /\ organized_days = <<>>
    /\ has_flexible_attractions = FALSE
    /\ itinerary_approved = FALSE
    /\ user_feedback = None
    /\ invalid_input = FALSE
    /\ tool_calls = {}
    /\ last_tool_call = [name |-> "none", args |-> <<>>]
    /\ last_tool_message = NoMessage
    /\ submitted_names = {}
    /\ clustering_locals = NoLocals

InitGraph ==
    /\ InitOrg
    /\ pc = "day_organizer_node"
    /\ retry_count = 0
    /\ attempts = 0
    /\ approval_rounds = 0
    /\ organizer_outcome = "none"
    /\ structured_response = NoResponse
    /\ attractions_by_day = <<>>
    /\ tasks = <<>>
    /\ batches = <<>>
    /\ processed_attractions = <<>>
    /\ document = <<>>
    /\ costs_by_currency = <<>>
    /\ final_document_path = ""

Init ==
    /\ InitGraph
    /\ route_call = NoRouteCall
    /\ route_result = NoRouteResult

\* Geocode in one call, then organize once.
NextOrg ==
    \/ day_organizer_node
    \/ /\ tool_calls = {}
       /\ extract_coordinates(AttractionInputs)
    \/ /\ OrgTool \notin tool_calls
       /\ organize_attractions_by_days(DayInputs, DayInputs, BOOLEAN, StartInputs,
                                       OptIntInputs, OptIntInputs)

(***************************************************************************)
(* The day organizer's run up to the fan-out                               *)
(***************************************************************************)
FlowAttractionInputs == {DictOf([n \in {"A", "B"} |-> Address(n)])}

FlowPrefInputs == {<<>>, <<<<"A", 1>>, <<"B", 1>>>>}

FlowGroupings ==
    {<<<<DayKey(1), <<"A", "B">>>>>>,
     <<<<DayKey(1), <<"B">>>>, <<DayKey(2), <<"A">>>>>>}

\* Final answers of the agent: none, ill-formed ones, one that repeats the grouping of
\* the state and one that does not.
FlowResponses ==
    {NoResponse,
     OrganizedItinerary("", <<DayOrganization(1, <<"A", "B">>)>>),
     OrganizedItinerary("Trip", <<DayOrganization(1, <<"A">>), DayOrganization(2, <<>>)>>),
     OrganizedItinerary("Trip", <<DayOrganization(1, <<"A", "B">>)>>),
     OrganizedItinerary("Trip", ItineraryDisplay(organized_days, 1))}

\* The approval checkpoints one run of this scenario goes through.
MaxFlowRounds == 1

NextFlow ==
    \/ day_organizer_node
    \/ extract_coordinates(FlowAttractionInputs)
    \/ organize_attractions_by_days(FlowPrefInputs, {<<>>}, {FALSE}, {None},
                                    {NoneInt}, {NoneInt})
    \/ /\ approval_rounds < MaxFlowRounds
       /\ request_itinerary_approval
    \/ resume_itinerary_approval(UserResponses)
    \/ update_itinerary_organization(FlowGroupings)
    \/ return_invalid_input_error
    \/ organizer_agent_finish(FlowResponses)
    \/ organizer_rate_limit
    \/ organizer_unexpected_error
    \/ assign_workers_node

(***************************************************************************)
(* The whole graph run over a fixed request                                *)
(***************************************************************************)
TaskAttractionInputs == {DictOf([n \in Names |-> Address(n)])}

TaskPrefInputs == {<<<<"A", 1>>, <<"B", 1>>, <<"C", 2>>>>}

\* Final answers of the day organizer: an ill-formed one, the grouping of the state,
\* the same days in descending order, and one that names day 1 twice.
TaskResponses ==
    {OrganizedItinerary("", <<DayOrganization(1, <<"A", "B">>)>>),
     OrganizedItinerary("Trip", ItineraryDisplay(organized_days, 1)),
     OrganizedItinerary("Trip", Reverse(ItineraryDisplay(organized_days, 1))),
     OrganizedItinerary("Trip", <<DayOrganization(1, <<"A">>), DayOrganization(1, <<"B">>)>>)}

CostInputs == {<<0, "EUR">>, <<5, "EUR">>, <<5, "USD">>}

NextTask ==
    \/ day_organizer_node
    \/ /\ tool_calls = {}
       /\ extract_coordinates(TaskAttractionInputs)
    \/ /\ OrgTool \notin tool_calls
       /\ organize_attractions_by_days(TaskPrefInputs, {<<>>}, {FALSE}, {None},
                                       {NoneInt}, {NoneInt})
    \/ organizer_agent_finish(TaskResponses)
    \/ organizer_rate_limit
    \/ organizer_unexpected_error
    \/ assign_workers_node
    \/ researcher_agent_finish(1..MaxDays, CostInputs)
    \/ researcher_rate_limit
    \/ researcher_unexpected_error
    \/ build_document_node

\* The same run with one well-formed answer per agent, for the progress properties.
FairResponses ==
    {OrganizedItinerary("", <<DayOrganization(1, <<"A", "B">>)>>),
     OrganizedItinerary("Trip", ItineraryDisplay(organized_days, 1))}

NextTaskFair ==
    \/ day_organizer_node
    \/ /\ tool_calls = {}
       /\ extract_coordinates(TaskAttractionInputs)
    \/ /\ OrgTool \notin tool_calls
       /\ organize_attractions_by_days(TaskPrefInputs, {<<>>}, {FALSE}, {None},
                                       {NoneInt}, {NoneInt})
    \/ organizer_agent_finish(FairResponses)
    \/ organizer_rate_limit
    \/ organizer_unexpected_error
    \/ assign_workers_node
    \/ researcher_agent_finish({1}, {<<5, "EUR">>})
    \/ researcher_rate_limit
    \/ researcher_unexpected_error
    \/ build_document_node

\* The same run in which the agent may also call return_invalid_input_error.
NextRunFair ==
    \/ NextTaskFair
    \/ return_invalid_input_error

(***************************************************************************)
(* The approval loop over a clustered grouping                             *)
(***************************************************************************)
\* Cluster A and B freely, then ask, answer and revise any number of times; the
\* agent's final answer is ill-formed or repeats the grouping of the state.
NextApproval ==
    \/ day_organizer_node
    \/ /\ tool_calls = {}
       /\ extract_coordinates(FlowAttractionInputs)
    \/ /\ OrgTool \notin tool_calls
       /\ organize_attractions_by_days({<<>>}, {<<>>}, {FALSE}, {None}, {NoneInt}, {NoneInt})
    \/ request_itinerary_approval
    \/ resume_itinerary_approval(UserResponses)
    \/ update_itinerary_organization(FlowGroupings)
    \/ organizer_agent_finish(FairResponses)
    \/ organizer_rate_limit
    \/ organizer_unexpected_error
    \/ assign_workers_node

\* Geocode, cluster with no day constraints, then revise the grouping once.
NextUpd ==
    \/ day_organizer_node
    \/ /\ tool_calls = {}
       /\ extract_coordinates(AttractionInputs)
    \/ /\ tool_calls \cap {OrgTool, UpdTool} = {}
       /\ organize_attractions_by_days({<<>>}, {<<>>}, {FALSE}, {None}, {NoneInt}, {NoneInt})
    \/ /\ UpdTool \notin tool_calls
       /\ update_itinerary_organization(GroupingInputs)

(***************************************************************************)
(* Geocoding in several calls, organizing in between                       *)
(***************************************************************************)
\* Requests for A and B; A is asked for under either of two addresses.
GeoAttractionInputs ==
    LET dicts == {DictOf(f) : f \in UNION {[K -> {"pA", "pA2", "pB"}] : K \in SUBSET {"A", "B"}}}
    IN  {d \in dicts : \A i \in 1..Len(d) : (d[i][1] = "B") <=> (d[i][2] = "pB")}

\* Day assignments for A and B, days below and above [1, num_days] included.
GeoDayInputs == InputDicts({"A", "B"}, 0..MaxDays)

GeoIsolatedInputs == InputDicts({"A"}, 0..MaxDays)

NextGeo ==
    \/ day_organizer_node
    \/ extract_coordinates(GeoAttractionInputs)
    \/ organize_attractions_by_days(GeoDayInputs, GeoIsolatedInputs, {FALSE}, {None},
                                    {NoneInt}, {NoneInt})

(***************************************************************************)
(* The route orderer on its own                                            *)
(***************************************************************************)
MaxRouteLen == 3

\* Lists of distinct names, the name "Z" that is never geocoded included.
RouteLists ==
    UNION {{l \in [1..k -> Range(NameOrder)] :
               \A i, j \in 1..k : l[i] = l[j] => i = j} : k \in 0..MaxRouteLen}

RouteCalls ==
    {[coordinates |-> DictOf([n \in K |-> World[Address(n)]]),
      attractions |-> l, starting_point |-> sp] :
        K \in SUBSET Names, l \in RouteLists, sp \in {None} \cup Range(NameOrder)}

InitRoute ==
    /\ InitGraph
    /\ route_call \in RouteCalls
    /\ route_result = NoRouteResult

\* One invocation of _order_attractions_nearest_neighbor on the arguments.
call_order_attractions_nearest_neighbor ==
    /\ \E ordered \in order_attractions_nearest_neighbor(route_call.coordinates,
                           route_call.attractions, route_call.starting_point) :
          route_result' = [returned |-> TRUE, ordered |-> ordered]
    /\ UNCHANGED <<route_call, orgVars, flowVars, taskVars>>

NextRoute == call_order_attractions_nearest_neighbor

vars == <<orgVars, flowVars, taskVars, routeVars>>

SpecOrg == Init /\ [][NextOrg]_vars

SpecUpd == Init /\ [][NextUpd]_vars

SpecFlow == Init /\ [][NextFlow]_vars

SpecTask == Init /\ [][NextTask]_vars

SpecGeo == Init /\ [][NextGeo]_vars

SpecApproval == Init /\ [][NextApproval]_vars

SpecRoute == InitRoute /\ [][NextRoute]_vars

\* Every call of the model, of a tool or of the document generator returns or raises:
\* the run does not stop while a step is possible.
SpecTaskFair == Init /\ [][NextTaskFair]_vars /\ WF_vars(NextTaskFair)

SpecRunFair == Init /\ [][NextRunFair]_vars /\ WF_vars(NextRunFair)

(***************************************************************************)
(* Properties of organize_attractions_by_days                              *)
(***************************************************************************)
OrgModes == {"predefined", "kmeans", "mixed"}

\* The last tool call was organize_attractions_by_days and it wrote a day assignment.
OrgSucceeded == last_tool_call.name = OrgTool /\ last_tool_message.kind \in OrgModes

OrgFailed == last_tool_call.name = OrgTool /\ last_tool_message.kind \notin OrgModes

\* The places <<i, j>> where the grouping lists the name.
Occurrences(grouping, n) ==
    {<<i, j>> \in (1..Len(grouping)) \X (1..Len(attraction_coordinates)) :
        j <= Len(grouping[i][2]) /\ grouping[i][2][j] = n}

\* The names the grouping lists under the day.
NamesOnDay(grouping, day) ==
    UNION {Range(grouping[i][2]) : i \in {k \in 1..Len(grouping) : grouping[k][1] = DayKey(day)}}

BothSets(args) == D_KeySet(args.day_preferences) \cap D_KeySet(args.isolated_days)

\* C1 (as claimed): a call in which some name is a key of both isolated_days and
\* day_preferences is rejected with an error and writes no day assignment.
C1_ConflictRejected ==
    (last_tool_call.name = OrgTool /\ BothSets(last_tool_call.args) # {})
        => (OrgFailed /\ organized_days = <<>> /\ clusters = <<>>)

\* C1 (amended): a name that is a key of both dicts is not rejected; it is treated as
\* isolated only: a successful call lists it under its isolated day and under no
\* other day, whatever day_preferences says for it.
C1_IsolatedTakesPrecedence ==
    OrgSucceeded =>
        \A n \in BothSets(last_tool_call.args) :
            /\ n \in NamesOnDay(organized_days, D_Get(last_tool_call.args.isolated_days, n))
            /\ \A d \in 1..MaxDays :
                  n \in NamesOnDay(organized_days, d)
                      => d = D_Get(last_tool_call.args.isolated_days, n)
            /\ clusters[IndexOf(D_Keys(attraction_coordinates), n)]
                  = D_Get(last_tool_call.args.isolated_days, n) - 1

\* A successful clustering call with a name isolated on one day and preferred on another.
C1_Witness ==
    /\ OrgSucceeded
    /\ has_flexible_attractions
    /\ \E n \in BothSets(last_tool_call.args) :
          D_Get(last_tool_call.args.isolated_days, n)
              # D_Get(last_tool_call.args.day_preferences, n)

\* C2: after a successful call every name of the Coordinate Store is listed exactly
\* once in organized_days, and every day key is a day in [1, num_days].
C2_TotalCoverage ==
    OrgSucceeded =>
        /\ \A n \in D_KeySet(attraction_coordinates) :
              Cardinality(Occurrences(organized_days, n)) = 1
        /\ \A i \in 1..Len(organized_days) :
              /\ DayNum(organized_days[i][1]) \in 1..num_days
              /\ Range(organized_days[i][2]) \subseteq D_KeySet(attraction_coordinates)

\* A successful clustering call over three attractions spread over two days.
C2_Witness ==
    /\ OrgSucceeded
    /\ has_flexible_attractions
    /\ Len(attraction_coordinates) = 3
    /\ Len(organized_days) = 2

\* C3: after a successful call a day that is a value of isolated_days lists only
\* attractions that are keys of isolated_days.
C3_ReservedDayExclusive ==
    OrgSucceeded =>
        \A d \in D_Values(last_tool_call.args.isolated_days) :
            NamesOnDay(organized_days, d) \subseteq D_KeySet(last_tool_call.args.isolated_days)

\* A successful call with an isolated, a preferred and a clustered attraction.
C3_Witness ==
    /\ OrgSucceeded
    /\ last_tool_message.kind = "mixed"
    /\ last_tool_call.args.isolated_days # <<>>
    /\ \E n \in D_KeySet(attraction_coordinates) :
          /\ ~D_Has(last_tool_call.args.isolated_days, n)
          /\ ~D_Has(last_tool_call.args.day_preferences, n)
    /\ \E n \in D_KeySet(last_tool_call.args.day_preferences) :
          ~D_Has(last_tool_call.args.isolated_days, n)

(***************************************************************************)
(* Properties of update_itinerary_organization                             *)
(***************************************************************************)
\* How often the replacement grouping lists the name.
TimesListed(new_organized_days, n) ==
    Cardinality({j \in 1..Len(FlattenDays(new_organized_days)) :
                    FlattenDays(new_organized_days)[j][1] = n})

\* The grouping lists every name of the store exactly once and no other name.
ExactlyOnce(new_organized_days) ==
    /\ \A n \in D_KeySet(attraction_coordinates) : TimesListed(new_organized_days, n) = 1
    /\ AllAttractionsInNew(new_organized_days) \subseteq D_KeySet(attraction_coordinates)

UpdStep == last_tool_call'.name = UpdTool /\ UpdTool \notin tool_calls

\* C5 (as claimed): a call of update_itinerary_organization is accepted only if the
\* replacement lists every stored name exactly once; any other replacement is
\* rejected and leaves organized_days and clusters unchanged.
C5_OnlyExactlyOnceAccepted ==
    [][UpdStep =>
          (~ExactlyOnce(last_tool_call'.args) =>
              /\ last_tool_message'.kind # "updated"
              /\ organized_days' = organized_days
              /\ clusters' = clusters)]_vars

\* C5 (what the code does hold): a replacement that omits a stored name or lists an
\* unknown name is rejected and leaves organized_days and clusters unchanged.
C5_MissingOrUnknownRejected ==
    [][UpdStep =>
          ((\/ MissingAttractions(D_Keys(attraction_coordinates), last_tool_call'.args) # {}
            \/ ExtraAttractions(D_Keys(attraction_coordinates), last_tool_call'.args) # {}) =>
              /\ last_tool_message'.kind # "updated"
              /\ organized_days' = organized_days
              /\ clusters' = clusters)]_vars

\* A replacement listing a stored name twice was accepted over an existing grouping.
C5_DuplicateAccepted ==
    /\ last_tool_call.name = UpdTool
    /\ last_tool_message.kind = "updated"
    /\ OrgTool \in tool_calls
    /\ \E n \in D_KeySet(attraction_coordinates) : TimesListed(last_tool_call.args, n) > 1

(***************************************************************************)
(* Properties of the approval checkpoint                                   *)
(***************************************************************************)
TasksCreated == pc = "attraction_researcher_node" /\ tasks # <<>>

\* C4 (as claimed): when the grouping in force came from the clustering path, research
\* tasks exist only if the user's last answer at the approval checkpoint accepted it.
C4_NoTaskBeforeApproval ==
    (has_flexible_attractions /\ TasksCreated) => itinerary_approved

\* Research tasks were created although the user's only answer was a change request.
C4_TasksAfterRejection ==
    /\ TasksCreated
    /\ has_flexible_attractions
    /\ ~itinerary_approved
    /\ user_feedback # None

(***************************************************************************)
(* Properties of the research tasks and of the reduce step                 *)
(***************************************************************************)
DoneTasks == {i \in 1..Len(tasks) : tasks[i].pc = "done"}

\* C6 (as claimed): no research task and no run of the day organizer invokes its agent
\* more than max_retries times.
C6_AttemptsWithinMaxRetries ==
    /\ attempts <= max_retries
    /\ \A i \in 1..Len(tasks) : tasks[i].attempts <= max_retries

\* C6 (amended): no research task and no run of the day organizer invokes its agent
\* more than max_retries + 1 times (one first attempt and max_retries retries),
\* whatever the mix of validation and rate-limit failures.
C6_AttemptsWithinMaxRetriesPlusOne ==
    /\ attempts <= max_retries + 1
    /\ \A i \in 1..Len(tasks) : tasks[i].attempts <= max_retries + 1

\* The organizer succeeded on its last allowed attempt and a task used all of its own.
C6_Witness ==
    /\ attempts = max_retries + 1
    /\ \E i \in 1..Len(tasks) : tasks[i].attempts = max_retries + 1

\* The result is one record per input name, in input order, filed under the task's
\* day, with empty enrichment fields, zero cost and the given currency.
IsFallbackSet(task, currency) ==
    /\ Len(task.result) = Len(task.attractions)
    /\ \A j \in 1..Len(task.result) :
          /\ task.result[j].name = task.attractions[j]
          /\ task.result[j].day_number = task.day_number
          /\ task.result[j].description = ""
          /\ task.result[j].images = <<>>
          /\ task.result[j].ticket_info = <<>>
          /\ task.result[j].useful_links = <<>>
          /\ task.result[j].estimated_cost = 0
          /\ task.result[j].currency = currency

\* The task gave up: it used up its retries or its last run raised an unexpected error
\* (a run without structured_response included).
GaveUp(task) ==
    /\ task.pc = "done"
    /\ \/ task.retry_count > max_retries
       \/ task.outcome = "fallback"
       \/ task.structured_response = <<>>

\* C7 (as claimed): a task that gave up returns the fallback set with every enrichment
\* field empty or zero, the currency included.
C7_FallbackAllEmpty ==
    \A i \in 1..Len(tasks) : GaveUp(tasks[i]) => IsFallbackSet(tasks[i], "")

\* C7 (amended): a task that gave up returns the fallback set: one record per input
\* name, in input order, with the task's day, empty description, images, ticket_info
\* and useful_links, zero cost, and the currency "EUR".
C7_FallbackWithDefaultCurrency ==
    \A i \in 1..Len(tasks) : GaveUp(tasks[i]) => IsFallbackSet(tasks[i], "EUR")

\* A two-attraction task and a day-2 task both gave up, one by using up its retries.
C7_Witness ==
    /\ \E i \in 1..Len(tasks) :
          /\ GaveUp(tasks[i])
          /\ tasks[i].retry_count > max_retries
          /\ Len(tasks[i].attractions) = 2
    /\ \E i \in 1..Len(tasks) : GaveUp(tasks[i]) /\ tasks[i].day_number = 2

RECURSIVE ReducedInOrder(_)
\* The results of the tasks listed, concatenated in that order.
ReducedInOrder(order) ==
    IF order = <<>> THEN <<>>
    ELSE tasks[order[1]].result \o ReducedInOrder(Tail(order))

\* C8: a task whose attempt passes validation after earlier failures within the retry
\* bound returns exactly the records of that attempt, and processed_attractions holds
\* exactly the returned results of the finished tasks, nothing else.
C8_SuccessAfterRetries ==
    /\ \A i \in 1..Len(tasks) :
          (tasks[i].pc = "done" /\ tasks[i].structured_response # <<>>
             /\ validate_day_research_result(tasks[i].structured_response[1])
             /\ tasks[i].retry_count <= max_retries)
          => /\ tasks[i].outcome = "success"
             /\ tasks[i].result = tasks[i].structured_response[1].attractions
    /\ processed_attractions = ReducedInOrder(batches)

\* A task succeeded on its third attempt, after two failures.
C8_Witness ==
    \E i \in 1..Len(tasks) :
        /\ tasks[i].pc = "done"
        /\ tasks[i].outcome = "success"
        /\ tasks[i].retry_count = 2
        /\ tasks[i].attempts = 3
        /\ tasks[i].result # FallbackRecords(tasks[i].attractions, tasks[i].day_number)

TimesReduced(i) == Cardinality({k \in 1..Len(batches) : batches[k] = i})

\* C9: once the tasks are created the run reaches END through build_document_node with
\* every task finished; a task's result is reduced at most once, and exactly once by
\* the time the document is built.
C9_TasksTerminate ==
    /\ [](\A i \in 1..Len(tasks) : TimesReduced(i) <= 1)
    /\ []((pc = "END" /\ tasks # <<>>) => \A i \in 1..Len(tasks) : TimesReduced(i) = 1)
    /\ (TasksCreated ~> (pc = "END" /\ DoneTasks = 1..Len(tasks)))

\* The document was built although one task fell back and another succeeded.
C9_Witness ==
    /\ pc = "END"
    /\ final_document_path # ""
    /\ \E i \in 1..Len(tasks) : tasks[i].outcome = "fallback"
    /\ \E i \in 1..Len(tasks) : tasks[i].outcome = "success"

\* The pairs of a dict.
D_Items(d) == Range(d)

\* C10 (as claimed): the document sections and the cost summary are those obtained by
\* reducing the tasks' results in the order the tasks were created, whatever the order
\* in which the tasks finished.
C10_OrderIndependent ==
    (pc = "END" /\ processed_attractions # <<>>) =>
        LET canonical == ReducedInOrder([i \in 1..Len(tasks) |-> i])
            days == Ascending(RecordDays(canonical))
        IN  /\ document = DaySections(canonical, days)
            /\ D_Items(costs_by_currency)
                  = D_Items(CostsByCurrency(SortedRecords(canonical, days), <<>>))

\* The tasks are for different days, yet the document built differs from the one the
\* creation order gives: a record carried another day's number.
C10_MislabelledRecordReordered ==
    /\ pc = "END"
    /\ processed_attractions # <<>>
    /\ \A i, j \in 1..Len(tasks) : tasks[i].day_number = tasks[j].day_number => i = j
    /\ ~C10_OrderIndependent

(***************************************************************************)
(* Properties of the Coordinate Store                                      *)
(***************************************************************************)
CoordinateErrors == {"incomplete_coordinates", "no_coordinates"}

\* C11: a call of organize_attractions_by_days made while the store is empty or while
\* some name submitted to an earlier extract_coordinates call has no coordinate in the
\* store fails with a no-coordinates error.
C11_OrganizeOnlyWhenAllResolved ==
    (/\ last_tool_call.name = OrgTool
     /\ \/ attraction_coordinates = <<>>
        \/ ~(submitted_names \subseteq D_KeySet(attraction_coordinates)))
        => last_tool_message.kind \in CoordinateErrors

\* A day assignment written although a submitted name was never geocoded.
C11_OrganizedWithUnresolvedName ==
    /\ OrgSucceeded
    /\ organized_days # <<>>
    /\ ~(submitted_names \subseteq D_KeySet(attraction_coordinates))

ExtractTool == "extract_coordinates"

\* The names the call of the step geocoded: asked for and not reported as a failure.
Geocoded(call, message) ==
    IF call.name = ExtractTool
    THEN D_KeySet(call.args) \ Range(message.detail)
    ELSE {}

\* C12: while the agent runs, a step never removes a name from the Coordinate Store; a
\* name the step geocoded holds the coordinate found for the address just given, a
\* new name enters the store only that way, and every other stored name (not asked
\* for, or asked for and failed) keeps its coordinate.
C12_StoreNeverShrinks ==
    [][(pc = "agent" /\ pc' = "agent") =>
          LET geocoded == Geocoded(last_tool_call', last_tool_message')
          IN  /\ D_KeySet(attraction_coordinates) \subseteq D_KeySet(attraction_coordinates')
              /\ D_KeySet(attraction_coordinates')
                    \subseteq D_KeySet(attraction_coordinates) \cup geocoded
              /\ \A n \in D_KeySet(attraction_coordinates') :
                    IF n \in geocoded
                    THEN D_Get(attraction_coordinates', n)
                             = World[D_Get(last_tool_call'.args, n)]
                    ELSE D_Get(attraction_coordinates', n)
                             = D_Get(attraction_coordinates, n)]_vars

\* A is geocoded again under its second address while B, stored earlier and not asked
\* for this time, is still in the store; and a failed geocode of a stored name.
C12_Witness ==
    /\ last_tool_call.name = ExtractTool
    /\ D_Keys(attraction_coordinates) = <<"A", "B">>
    /\ D_KeySet(last_tool_call.args) = {"A"}
    /\ \/ /\ last_tool_message.detail = <<>>
          /\ D_Get(last_tool_call.args, "A") = "pA2"
          /\ D_Get(attraction_coordinates, "A") = World["pA2"]
       \/ /\ last_tool_message.detail = <<"A">>
          /\ D_Get(attraction_coordinates, "A") = World["pA"]

(***************************************************************************)
(* More properties of organize_attractions_by_days                         *)
(***************************************************************************)
\* C13: after a successful call every day that is a value of isolated_days lists
\* exactly one attraction.
C13_ReservedDayHoldsOne ==
    OrgSucceeded =>
        \A d \in D_Values(last_tool_call.args.isolated_days) :
            Cardinality(NamesOnDay(organized_days, d)) = 1

\* Two different attractions isolated on the same day, and the day lists both.
C13_TwoIsolatedShareDay ==
    /\ OrgSucceeded
    /\ \E a, b \in D_KeySet(last_tool_call.args.isolated_days) :
          /\ a # b
          /\ D_Get(last_tool_call.args.isolated_days, a)
                = D_Get(last_tool_call.args.isolated_days, b)
          /\ {a, b} \subseteq
                NamesOnDay(organized_days, D_Get(last_tool_call.args.isolated_days, a))

\* The flexible attractions of a call: stored names that are neither isolated nor
\* preferred.
FlexibleOf(args) ==
    D_KeySet(attraction_coordinates)
        \ (D_KeySet(args.isolated_days) \cup D_KeySet(args.day_preferences))

NonReservedDays(args) == {d \in 1..num_days : d \notin D_Values(args.isolated_days)}

\* k = min(number of non-reserved days, total_flexible)
ClustersOf(args) ==
    IF Cardinality(NonReservedDays(args)) <= Cardinality(FlexibleOf(args))
    THEN Cardinality(NonReservedDays(args)) ELSE Cardinality(FlexibleOf(args))

LowerBoundOf(args) ==
    IF args.min_attractions_per_day = NoneInt THEN 0 ELSE args.min_attractions_per_day[1]

UpperBoundOf(args) ==
    IF args.max_attractions_per_day = NoneInt THEN Cardinality(FlexibleOf(args))
    ELSE args.max_attractions_per_day[1]

Infeasible(args) ==
    \/ LowerBoundOf(args) * ClustersOf(args) > Cardinality(FlexibleOf(args))
    \/ UpperBoundOf(args) * ClustersOf(args) < Cardinality(FlexibleOf(args))

SizeErrors == {"impossible_min", "impossible_max"}

\* The errors of the checks made before the size constraints are looked at.
EarlierErrors ==
    CoordinateErrors \cup
    {"invalid_day_preferences", "invalid_isolated_days", "min_lt_1", "max_lt_1",
     "min_gt_max", "without_coordinates", "prefs_on_reserved_days", "no_days_available"}

\* C14: a call with min_attractions_per_day or max_attractions_per_day set and with
\* flexible attractions, which passes the earlier checks, fails with an infeasible-size
\* error exactly when min*k > total_flexible or max*k < total_flexible; on that error
\* no day assignment is written, and a successful call keeps the number of flexible
\* attractions of every day that has some within the bounds as given.
C14_InfeasibleSizeRejected ==
    LET args == last_tool_call.args
        kind == last_tool_message.kind
        flexOn(d) == Cardinality(NamesOnDay(organized_days, d) \cap FlexibleOf(args))
    IN  (/\ last_tool_call.name = OrgTool
         /\ kind \notin EarlierErrors
         /\ args.min_attractions_per_day # NoneInt \/ args.max_attractions_per_day # NoneInt
         /\ FlexibleOf(args) # {})
            => /\ kind \in SizeErrors <=> Infeasible(args)
               /\ kind \in SizeErrors => (organized_days = <<>> /\ clusters = <<>>)
               /\ OrgSucceeded =>
                     \A d \in 1..num_days :
                         \/ flexOn(d) = 0
                         \/ /\ LowerBoundOf(args) <= flexOn(d)
                            /\ flexOn(d) <= UpperBoundOf(args)

\* With one day reserved, two flexible attractions do not fit the one day left under
\* max_attractions_per_day = 1: the call fails with the infeasible-size error.
C14_Witness ==
    /\ last_tool_call.name = OrgTool
    /\ last_tool_message.kind = "impossible_max"
    /\ num_days = 2
    /\ last_tool_call.args.isolated_days # <<>>
    /\ last_tool_call.args.max_attractions_per_day = SomeInt(1)
    /\ Cardinality(FlexibleOf(last_tool_call.args)) = 2

\* The entries of a day assignment whose day is outside [1, num_days].
OutOfRange(assignments) ==
    {assignments[i] : i \in {j \in 1..Len(assignments) :
                                 assignments[j][2] \notin 1..num_days}}

\* C15: a call (made once the coordinates are there) whose day_preferences or
\* isolated_days holds a day outside [1, num_days] fails with an error that names such
\* an entry, its attraction and its day; and a call that fails, for this or for any
\* other reason, changes nothing but the messages: clusters, organized_days,
\* has_flexible_attractions and the rest of the state are as before the call.
C15_InvalidDayRejectedPurely ==
    [][last_tool_call'.name = OrgTool =>
          LET args == last_tool_call'.args
              kind == last_tool_message'.kind
              detail == last_tool_message'.detail
          IN  /\ OutOfRange(args.day_preferences) # {} =>
                    /\ kind = "invalid_day_preferences"
                    /\ detail \in OutOfRange(args.day_preferences)
              /\ (OutOfRange(args.day_preferences) = {}
                    /\ OutOfRange(args.isolated_days) # {}) =>
                    /\ kind = "invalid_isolated_days"
                    /\ detail \in OutOfRange(args.isolated_days)
              /\ kind \notin OrgModes =>
                    UNCHANGED <<num_days, attraction_coordinates, all_coordinates_obtained,
                                clusters, organized_days, has_flexible_attractions,
                                itinerary_approved, user_feedback, invalid_input,
                                submitted_names, flowVars, taskVars, routeVars>>]_vars

\* A call with a day outside the range was rejected after an earlier call had written
\* a day assignment, which is still there.
C15_Witness ==
    /\ last_tool_call.name = OrgTool
    /\ last_tool_message.kind \in {"invalid_day_preferences", "invalid_isolated_days"}
    /\ OutOfRange(last_tool_call.args.day_preferences)
          \cup OutOfRange(last_tool_call.args.isolated_days) # {}
    /\ organized_days # <<>>
    /\ clusters # <<>>

\* The day_preferences entries of a call that target a day that is a value of
\* isolated_days.
PrefsOnIsolatedDay(args) ==
    {args.day_preferences[i] :
        i \in {j \in 1..Len(args.day_preferences) :
                  args.day_preferences[j][2] \in D_Values(args.isolated_days)}}

\* C16 (as claimed): a call in which some day_preferences entry targets a day that is
\* also a value of isolated_days is rejected and writes no day assignment.
C16_PreferenceOnReservedDayRejected ==
    (last_tool_call.name = OrgTool /\ PrefsOnIsolatedDay(last_tool_call.args) # {})
        => (OrgFailed /\ organized_days = <<>> /\ clusters = <<>>)

\* The checks whose error comes before the reserved-day check.
ArgumentErrors ==
    {"invalid_day_preferences", "invalid_isolated_days", "min_lt_1", "max_lt_1",
     "min_gt_max", "without_coordinates"}

\* C16 (amended): a call in which the day_preferences entry of an attraction that is
\* not itself a key of isolated_days targets a day that is a value of isolated_days is
\* rejected and writes no day assignment; unless an argument check fails first, the
\* error is the reserved-day conflict and lists exactly those entries.
C16_OtherPreferenceOnReservedDayRejected ==
    LET args == last_tool_call.args
        conflicts == {e \in PrefsOnIsolatedDay(args) : ~D_Has(args.isolated_days, e[1])}
    IN  (last_tool_call.name = OrgTool /\ conflicts # {})
            => /\ OrgFailed
               /\ organized_days = <<>>
               /\ clusters = <<>>
               /\ last_tool_message.kind \in ArgumentErrors \cup {"prefs_on_reserved_days"}
               /\ last_tool_message.kind = "prefs_on_reserved_days"
                     => Range(last_tool_message.detail) = conflicts

\* B is preferred on the day reserved for A, and the call is rejected for it.
C16_Witness ==
    /\ last_tool_call.name = OrgTool
    /\ last_tool_message.kind = "prefs_on_reserved_days"
    /\ D_Has(last_tool_call.args.isolated_days, "A")
    /\ D_Has(last_tool_call.args.day_preferences, "B")
    /\ ~D_Has(last_tool_call.args.isolated_days, "B")
    /\ D_Get(last_tool_call.args.day_preferences, "B")
          = D_Get(last_tool_call.args.isolated_days, "A")

\* C17: a call in which the isolated days take every day of [1, num_days] while some
\* stored attraction is neither isolated nor preferred fails and writes no day
\* assignment, so no flexible attraction is put on any day; the error is the
\* no-days-available one unless an argument check or the reserved-day check fails
\* first, which cannot happen when only isolated_days is given and its days are valid.
C17_NoDaysAvailableRejected ==
    LET args == last_tool_call.args
    IN  (/\ last_tool_call.name = OrgTool
         /\ NonReservedDays(args) = {}
         /\ FlexibleOf(args) # {})
            => /\ OrgFailed
               /\ organized_days = <<>>
               /\ clusters = <<>>
               /\ last_tool_message.kind
                     \in ArgumentErrors \cup {"prefs_on_reserved_days", "no_days_available"}
               /\ (/\ args.day_preferences = <<>>
                   /\ args.min_attractions_per_day = NoneInt
                   /\ args.max_attractions_per_day = NoneInt
                   /\ OutOfRange(args.isolated_days) = {}
                   /\ D_KeySet(args.isolated_days) \subseteq D_KeySet(attraction_coordinates))
                     => last_tool_message.kind = "no_days_available"

\* Both days of a two-day trip are reserved, a third attraction is left over, and the
\* call fails for want of a day.
C17_Witness ==
    /\ last_tool_call.name = OrgTool
    /\ last_tool_message.kind = "no_days_available"
    /\ num_days = 2
    /\ D_Values(last_tool_call.args.isolated_days) = {1, 2}
    /\ FlexibleOf(last_tool_call.args) # {}
    /\ organized_days = <<>>

(***************************************************************************)
(* Properties of the route orderer                                         *)
(***************************************************************************)
RouteHasCoord(a) == D_Has(route_call.coordinates, a)

RouteWithCoords == SelectSeq(route_call.attractions, RouteHasCoord)

RouteWithoutCoords ==
    SelectSeq(route_call.attractions, LAMBDA a : ~RouteHasCoord(a))

RouteDistance(a, b) ==
    geodesic(Point(D_Get(route_call.coordinates, a)), Point(D_Get(route_call.coordinates, b)))

\* The attractions with a coordinate not yet visited before position i of the result.
Unvisited(i) ==
    Range(RouteWithCoords) \ {route_result.ordered[j] : j \in 1..(i - 1)}

\* Position i of the result is an unvisited attraction nearest to the one before it.
NearestAt(i) ==
    /\ route_result.ordered[i] \in Unvisited(i)
    /\ \A b \in Unvisited(i) :
          ~DistLess(RouteDistance(route_result.ordered[i - 1], b),
                    RouteDistance(route_result.ordered[i - 1], route_result.ordered[i]))

\* Among the unvisited attractions as near as the one at position i, none comes
\* earlier in the input list.
FirstInInputAt(i) ==
    \A b \in Unvisited(i) :
        DistEq(RouteDistance(route_result.ordered[i - 1], b),
               RouteDistance(route_result.ordered[i - 1], route_result.ordered[i]))
            => IndexOf(route_call.attractions, route_result.ordered[i])
                  <= IndexOf(route_call.attractions, b)

\* C18: in the order returned for a list with two or more attractions that have a
\* coordinate, each element after the first is an unvisited attraction at the least
\* distance from the element before it, and among several at that distance it is the
\* one that comes first in the input list.
C18_NearestFirstInInputOrder ==
    (route_result.returned /\ Len(RouteWithCoords) >= 2)
        => \A i \in 2..Len(RouteWithCoords) : NearestAt(i) /\ FirstInInputAt(i)

\* The part of C18 the code keeps: each element after the first is a nearest
\* unvisited attraction.
C18_NearestUnvisited ==
    (route_result.returned /\ Len(RouteWithCoords) >= 2)
        => \A i \in 2..Len(RouteWithCoords) : NearestAt(i)

\* C19: in the order returned for a list of two or more attractions, the attractions
\* without a coordinate are the tail of the result, in their input order, and
\* everything before them has a coordinate.
C19_UncoordinatedLast ==
    (route_result.returned /\ Len(route_call.attractions) >= 2)
        => LET r == route_result.ordered
               n == Len(r) - Len(RouteWithoutCoords)
           IN  /\ n >= 0
               /\ SubSeq(r, n + 1, Len(r)) = RouteWithoutCoords
               /\ \A i \in 1..n : RouteHasCoord(r[i])

\* The part of C19 the code keeps: no attraction without a coordinate is dropped and
\* their relative order is the input order.
C19_UncoordinatedKept ==
    (route_result.returned /\ Len(route_call.attractions) >= 2)
        => SelectSeq(route_result.ordered, LAMBDA a : ~RouteHasCoord(a))
              = RouteWithoutCoords

\* C20: two invocations on the same coordinates, list and starting point return the
\* same order.
C20_SameOrderEveryTime ==
    [][(route_result.returned /\ route_result'.returned)
          => route_result'.ordered = route_result.ordered]_vars

(***************************************************************************)
(* C21: the all-predefined path                                            *)
(***************************************************************************)
\* The day the caller gave the attraction: its isolated_days day, else its
\* day_preferences day.
CallerDay(args, n) ==
    IF D_Has(args.isolated_days, n) THEN D_Get(args.isolated_days, n)
    ELSE D_Get(args.day_preferences, n)

\* The names in the order the caller gave them: the keys of day_preferences, then the
\* keys of isolated_days that day_preferences does not have.
CallerOrder(args) ==
    D_Keys(args.day_preferences)
        \o SelectSeq(D_Keys(args.isolated_days),
                     LAMBDA n : ~D_Has(args.day_preferences, n))

\* The caller's names of one day, in the caller's order.
CallerList(args, day) == SelectSeq(CallerOrder(args), LAMBDA n : CallerDay(args, n) = day)

NoFlexibleCall == OrgSucceeded /\ FlexibleOf(last_tool_call.args) = {}

\* C21: when a successful call leaves no attraction flexible, organized_days lists
\* every attraction under the day the caller gave it and under no other day, whatever
\* optimize_order_by_distance and starting_point are: each day holds the caller's
\* names of that day, each once; with the flag off they are in the caller's order.
C21_PredefinedDaysKept ==
    NoFlexibleCall =>
        LET args == last_tool_call.args
        IN  /\ last_tool_message.kind = "predefined"
            /\ \A n \in D_KeySet(attraction_coordinates), d \in 1..MaxDays :
                  n \in NamesOnDay(organized_days, d) <=> d = CallerDay(args, n)
            /\ \A i \in 1..Len(organized_days) :
                  LET given == CallerList(args, DayNum(organized_days[i][1]))
                  IN  /\ Len(organized_days[i][2]) = Len(given)
                      /\ Range(organized_days[i][2]) = Range(given)
                      /\ ~args.optimize_order_by_distance => organized_days[i][2] = given
            /\ \A i, j \in 1..Len(organized_days) :
                  organized_days[i][1] = organized_days[j][1] => i = j

\* An all-predefined call with the flag on and a starting point that reorders a day of
\* three attractions.
C21_Witness ==
    /\ NoFlexibleCall
    /\ last_tool_call.args.optimize_order_by_distance
    /\ last_tool_call.args.starting_point # None
    /\ \E i \in 1..Len(organized_days) :
          /\ Len(organized_days[i][2]) = 3
          /\ organized_days[i][2]
                # CallerList(last_tool_call.args, DayNum(organized_days[i][1]))

(***************************************************************************)
(* C22: the fan-out                                                        *)
(***************************************************************************)
\* The tasks created for the day.
TasksOfDay(day) == {i \in 1..Len(tasks) : tasks[i].day_number = day}

\* C22 (as claimed): the research tasks are one per day of organized_days, each with
\* that day's number and that day's names in the order organized_days lists them; no
\* day has two tasks and no organized attraction is without a task.
C22_OneTaskPerOrganizedDay ==
    TasksCreated =>
        /\ \A k \in 1..Len(organized_days) :
              /\ Cardinality(TasksOfDay(DayNum(organized_days[k][1]))) = 1
              /\ \A i \in TasksOfDay(DayNum(organized_days[k][1])) :
                    tasks[i].attractions = organized_days[k][2]
        /\ \A i \in 1..Len(tasks) : D_Has(organized_days, DayKey(tasks[i].day_number))

\* Two tasks were created for day 1 and the attraction organized_days lists under day 2
\* has no task.
C22_DayResearchedTwice ==
    /\ TasksCreated
    /\ Cardinality(TasksOfDay(1)) = 2
    /\ \E n \in NamesOnDay(organized_days, 2) :
          \A i \in 1..Len(tasks) : n \notin Range(tasks[i].attractions)

(***************************************************************************)
(* C23: the cost summary                                                   *)
(***************************************************************************)
RECURSIVE CostSum(_, _)
\* The sum of the positive estimated_cost values of the records in the currency.
CostSum(records, currency) ==
    IF records = <<>> THEN 0
    ELSE (IF records[1].currency = currency /\ records[1].estimated_cost > 0
          THEN records[1].estimated_cost ELSE 0)
         + CostSum(Tail(records), currency)

\* The names the document lists under the day.
ListedUnder(day) ==
    UNION {Range(document[k].attractions) : k \in {j \in 1..Len(document) : document[j].day = day}}

DocumentBuilt == pc = "END" /\ processed_attractions # <<>>

\* C23: once the document is built, costs_by_currency has an entry for exactly the
\* currencies in which some record has a cost above zero, and the entry is the sum of
\* those costs; a record of cost zero adds nothing and opens no entry, yet it is
\* listed in the document.
C23_CostSummary ==
    DocumentBuilt =>
        /\ \A r \in Range(processed_attractions) :
              /\ D_Has(costs_by_currency, r.currency)
                    <=> CostSum(processed_attractions, r.currency) > 0
              /\ D_Has(costs_by_currency, r.currency)
                    => D_Get(costs_by_currency, r.currency)
                          = CostSum(processed_attractions, r.currency)
              /\ r.name \in ListedUnder(r.day_number)
        /\ D_KeySet(costs_by_currency)
              \subseteq {r.currency : r \in Range(processed_attractions)}
        /\ \A i, j \in 1..Len(costs_by_currency) :
              costs_by_currency[i][1] = costs_by_currency[j][1] => i = j

\* A document with a record of cost zero whose currency has no entry, next to a
\* currency whose entry sums two records.
C23_Witness ==
    /\ DocumentBuilt
    /\ \E r \in Range(processed_attractions) :
          /\ r.estimated_cost = 0
          /\ ~D_Has(costs_by_currency, r.currency)
          /\ r.name \in ListedUnder(r.day_number)
    /\ \E k \in 1..Len(costs_by_currency) : costs_by_currency[k][2] = 10

(***************************************************************************)
(* C24, C25: the cluster-to-day mapping                                    *)
(***************************************************************************)
\* The last call of organize_attractions_by_days succeeded by way of the clustering
\* path, so it built a cluster-to-day mapping.
Mapped == OrgSucceeded /\ clustering_locals.mapped

\* The preferences that count: those of stored names that are not isolated.
PreferredOf(args) ==
    SelectSeq(args.day_preferences,
              LAMBDA e : D_Has(attraction_coordinates, e[1])
                         /\ ~D_Has(args.isolated_days, e[1]))

PreferenceDays(args) == D_Values(PreferredOf(args))

\* The centroid of the attractions preferred on the day.
PreferenceCentroid(args, day) ==
    calculate_centroid(attraction_coordinates,
        D_Keys(SelectSeq(PreferredOf(args), LAMBDA e : e[2] = day)))

\* The clusters the mapping sends to the day.
ClaimedBy(day) ==
    {cid \in D_KeySet(clustering_locals.cluster_to_day) :
        D_Get(clustering_locals.cluster_to_day, cid) = day}

\* The clusters no preference day before the given one has claimed.
Unclaimed(args, day) ==
    (0..(clustering_locals.n_clusters_flex - 1))
        \ UNION {ClaimedBy(e) : e \in {p \in PreferenceDays(args) : p < day}}

\* The clusters no preference day has claimed, in ascending order.
LeftOver(args) == Ascending(Unclaimed(args, MaxDays + 1))

\* C24: when some attraction has a preference, the preference days are processed in
\* ascending order; each one, while a cluster is left, claims exactly one cluster, and
\* no unclaimed cluster's centre is nearer to the day's centroid than the claimed one;
\* the clusters left over take the free days in ascending cluster-index order.
C24_PreferenceDaysClaimNearest ==
    (Mapped /\ PreferenceDays(last_tool_call.args) # {}) =>
        LET args == last_tool_call.args
            centers == clustering_locals.kmeans_centers
            free == Ascending(NonReservedDays(args) \ PreferenceDays(args))
        IN  /\ \A day \in PreferenceDays(args) :
                  Unclaimed(args, day) # {} =>
                      \E cid \in Unclaimed(args, day) :
                          /\ ClaimedBy(day) = {cid}
                          /\ \A o \in Unclaimed(args, day) :
                                ~DistLess(geodesic(PreferenceCentroid(args, day), centers[o]),
                                          geodesic(PreferenceCentroid(args, day), centers[cid]))
            /\ Len(LeftOver(args)) <= Len(free)
            /\ \A j \in 1..Len(LeftOver(args)) :
                  D_Get(clustering_locals.cluster_to_day, LeftOver(args)[j]) = free[j]

\* A preference day claimed cluster 1 because its centre is strictly nearer than that
\* of cluster 0, and cluster 0 took the free day.
C24_Witness ==
    /\ Mapped
    /\ clustering_locals.n_clusters_flex = 2
    /\ \E day \in PreferenceDays(last_tool_call.args) :
          /\ ClaimedBy(day) = {1}
          /\ DistLess(geodesic(PreferenceCentroid(last_tool_call.args, day),
                               clustering_locals.kmeans_centers[1]),
                      geodesic(PreferenceCentroid(last_tool_call.args, day),
                               clustering_locals.kmeans_centers[0]))
    /\ \E day \in NonReservedDays(last_tool_call.args) \ PreferenceDays(last_tool_call.args) :
          ClaimedBy(day) = {0}

\* C25: on the clustering path the mapping is defined on exactly the clusters
\* 0..k-1, k = min(number of non-reserved days, number of flexible attractions), sends
\* no two clusters to one day, sends each to a non-reserved day of [1, num_days], and
\* covers every label k-means returned, so the default day is never used.
C25_MappingTotalInjective ==
    Mapped =>
        LET args == last_tool_call.args
            cluster_to_day == clustering_locals.cluster_to_day
        IN  /\ clustering_locals.n_clusters_flex = ClustersOf(args)
            /\ D_KeySet(cluster_to_day) = 0..(ClustersOf(args) - 1)
            /\ Len(cluster_to_day) = ClustersOf(args)
            /\ \A i, j \in 1..Len(cluster_to_day) :
                  cluster_to_day[i][2] = cluster_to_day[j][2] => i = j
            /\ D_Values(cluster_to_day) \subseteq NonReservedDays(args)
            /\ Range(clustering_locals.clusters_flex) \subseteq D_KeySet(cluster_to_day)
            /\ \A i \in 1..Len(clustering_locals.clusters_flex) :
                  LET name == SelectSeq(D_Keys(attraction_coordinates),
                                        LAMBDA n : n \in FlexibleOf(args))[i]
                  IN  clusters[IndexOf(D_Keys(attraction_coordinates), name)] + 1
                          = D_Get(cluster_to_day, clustering_locals.clusters_flex[i])

\* A mapping of two clusters, both with members, in a call that also has a preferred
\* attraction.
C25_Witness ==
    /\ Mapped
    /\ Len(clustering_locals.cluster_to_day) = 2
    /\ Range(clustering_locals.clusters_flex) = {0, 1}
    /\ PreferenceDays(last_tool_call.args) # {}

(***************************************************************************)
(* C26: the approval loop                                                  *)
(***************************************************************************)
\* request_itinerary_approval reaches interrupt(): the run pauses at a checkpoint.
CheckpointStep == pc = "agent" /\ pc' = "interrupt"

\* The node answers the checkpoint with Command(resume=...).
ResumeStep == pc = "interrupt" /\ pc' = "agent"

\* update_itinerary_organization is called and answers.
RevisionStep ==
    /\ pc = "agent"
    /\ last_tool_call'.name = UpdTool
    /\ <<last_tool_call, last_tool_message, tool_calls>>'
          # <<last_tool_call, last_tool_message, tool_calls>>

\* C26: a step of the approval loop (a checkpoint, its answer, a revision) leaves
\* retry_count and the number of agent invocations as they were and does not end the
\* node, however many answers were given before; a checkpoint is left only by one
\* resume, which counts one answer and hands the tool the user's words (or by an
\* unexpected error), and an answer is given only at a checkpoint.
C26_ApprovalLoopUnbounded ==
    [][/\ (CheckpointStep \/ ResumeStep \/ RevisionStep)
            => /\ retry_count' = retry_count
               /\ attempts' = attempts
               /\ organizer_outcome' = organizer_outcome
               /\ pc' \in {"agent", "interrupt"}
       /\ pc = "interrupt"
            => \/ /\ ResumeStep
                  /\ approval_rounds' = Min(approval_rounds + 1, MaxRounds)
                  /\ last_tool_message'.tool = ApprovalTool
                  /\ last_tool_message'.kind \in {"approved", "changes_requested"}
               \/ organizer_outcome' = "fallback"
       /\ approval_rounds' # approval_rounds => ResumeStep]_vars

\* The node returned the agent's answer at its first attempt after four checkpoints,
\* one more than max_retries, the last answer an approval that followed a change
\* request and a revision.
C26_Witness ==
    /\ approval_rounds = max_retries + 1
    /\ retry_count = 0
    /\ attempts = 1
    /\ organizer_outcome = "success"
    /\ itinerary_approved
    /\ user_feedback # None
    /\ UpdTool \in tool_calls
    /\ last_tool_message.tool = ApprovalTool

(***************************************************************************)
(* C27: the state a revision leaves                                        *)
(***************************************************************************)
UpdSucceeded == last_tool_call.name = UpdTool /\ last_tool_message.kind = "updated"

\* C27 (as claimed): after a successful update_itinerary_organization every day key
\* of organized_days is a day of [1, num_days], and clusters holds for every
\* attraction the day, minus one, under which organized_days lists it.
C27_UpdateKeepsDaysInRange ==
    UpdSucceeded =>
        /\ \A i \in 1..Len(organized_days) : DayNum(organized_days[i][1]) \in 1..num_days
        /\ \A i \in 1..Len(organized_days) :
              \A n \in Range(organized_days[i][2]) :
                  clusters[IndexOf(D_Keys(attraction_coordinates), n)]
                      = DayNum(organized_days[i][1]) - 1

\* A replacement that lists every stored name exactly once was accepted although one
\* of its day keys is num_days + 1.
C27_DayBeyondTrip ==
    /\ UpdSucceeded
    /\ OrgTool \in tool_calls
    /\ ExactlyOnce(last_tool_call.args)
    /\ \E i \in 1..Len(organized_days) : DayNum(organized_days[i][1]) = num_days + 1

(***************************************************************************)
(* C29: the day a record is filed under                                    *)
(***************************************************************************)
\* The names of the records the tasks of the day returned.
ContributedTo(day) ==
    UNION {{tasks[i].result[j].name : j \in 1..Len(tasks[i].result)} : i \in TasksOfDay(day)}

\* C29 (as claimed): the document lists under each day exactly the records the tasks
\* of that day returned: a record of the task of day d is listed under day d and under
\* no other day, whatever its own day_number field says.
C29_RecordsUnderTaskDay ==
    DocumentBuilt =>
        \A day \in 1..(MaxDays + 1) : ListedUnder(day) = ContributedTo(day)

\* One task per day with the days' own names, yet the document lists a record of the
\* task of day 1 under day 2: the record said day_number 2.
C29_RecordMovedByItsDayNumber ==
    /\ DocumentBuilt
    /\ \A i, j \in 1..Len(tasks) : tasks[i].day_number = tasks[j].day_number => i = j
    /\ \A i \in 1..Len(tasks) : tasks[i].outcome = "success"
    /\ \E i \in TasksOfDay(1) :
          \E r \in Range(tasks[i].result) :
              /\ r.day_number = 2
              /\ r.name \in ListedUnder(2)
              /\ r.name \notin ListedUnder(1)

(***************************************************************************)
(* C28, C30: runs that end without research                                *)
(***************************************************************************)
\* day_organizer_node has returned.
OrganizerReturned == organizer_outcome # "none"

\* Nothing after the fan-out has happened: no task, no record, no document, no path.
NothingResearched ==
    /\ tasks = <<>>
    /\ batches = <<>>
    /\ processed_attractions = <<>>
    /\ document = <<>>
    /\ costs_by_currency = <<>>
    /\ final_document_path = ""

\* C28: when day_organizer_node returns with invalid_input true, the run is at the
\* fan-out or at END and stays there: no research task is ever created,
\* build_document_node never runs, final_document_path stays empty, and the run
\* reaches END.
C28_InvalidInputGoesToEnd ==
    /\ []((OrganizerReturned /\ invalid_input)
             => (pc \in {"assign_workers_node", "END"} /\ NothingResearched))
    /\ (OrganizerReturned /\ invalid_input) ~> (pc = "END" /\ NothingResearched)

\* A run ended without research although the agent, after return_invalid_input_error,
\* gave a final answer with a day of attractions.
C28_Witness ==
    /\ pc = "END"
    /\ invalid_input
    /\ ErrorTool \in tool_calls
    /\ organizer_outcome = "success"
    /\ attractions_by_day # <<>>
    /\ NothingResearched

\* C30: when day_organizer_node gives up, after max_retries + 1 failed attempts or on
\* an unexpected error, it returns an empty attractions_by_day with invalid_input
\* false; from then on no research task is created, build_document_node never runs,
\* no document path is produced, and the run reaches END.
C30_FallbackEndsRun ==
    /\ [](RetriesExhausted(retry_count) => organizer_outcome = "fallback")
    /\ [](organizer_outcome = "fallback"
             => /\ attractions_by_day = <<>>
                /\ ~invalid_input
                /\ pc \in {"assign_workers_node", "END"}
                /\ NothingResearched)
    /\ (organizer_outcome = "fallback") ~> (pc = "END" /\ NothingResearched)

\* A run ended after the fourth failed attempt, the agent having called
\* return_invalid_input_error and answered with a day of attractions on the way.
C30_Witness ==
    /\ pc = "END"
    /\ organizer_outcome = "fallback"
    /\ retry_count = max_retries + 1
    /\ attempts = max_retries + 1
    /\ ErrorTool \in tool_calls
    /\ structured_response.attractions_by_day # <<>>
    /\ NothingResearched

====
